---------------------------- MODULE Spec2Model ----------------------------
(***************************************************************************)
(* Model of chat-espe-backend-main: the file security validator            *)
(* (file_security.py).                                                     *)
(*                                                                         *)
(* Numbers.  The code computes with floats; the model computes with        *)
(* integers in fixed point.  A confidence, a complexity score, a p-value   *)
(* or an energy ratio x is held as the integer 1000*x ("thousandths").     *)
(* The adaptive LSB thresholds and the LSB deviation are held as 10^7 * x, *)
(* a unit in which the threshold arithmetic of adaptive_lsb_threshold is   *)
(* exact for every complexity score given in thousandths.  An entropy      *)
(* (bits per byte, 0..8) is held in thousandths.                           *)
(***************************************************************************)
EXTENDS Integers, Sequences, FiniteSets, TLC

\* ------------------------------------------------------------------
\* Fixed-point helpers
\* ------------------------------------------------------------------

\* One unit of a confidence: 1.0 is held as Scale.
Scale == 1000

\* One unit of an LSB deviation or threshold: 1.0 is held as DevScale.
DevScale == 10000000

Abs(x) == IF x < 0 THEN -x ELSE x

Min(a, b) == IF a <= b THEN a ELSE b

Max(a, b) == IF a >= b THEN a ELSE b

\* np.clip(x, lo, hi)
Clip(x, lo, hi) == IF x < lo THEN lo ELSE IF x > hi THEN hi ELSE x

RECURSIVE SumSeq(_)
SumSeq(s) == IF s = <<>> THEN 0 ELSE Head(s) + SumSeq(Tail(s))

\* np.mean of a non-empty list of thousandths (rounded down).
Mean(s) == SumSeq(s) \div Len(s)

RECURSIVE SqrtIter(_, _, _)
SqrtIter(lo, hi, x) ==
    IF lo >= hi THEN lo
    ELSE LET mid == (lo + hi + 1) \div 2
         IN IF mid * mid <= x THEN SqrtIter(mid, hi, x)
                              ELSE SqrtIter(lo, mid - 1, x)

\* floor(sqrt(x)) for 0 <= x <= Scale*Scale
Isqrt(x) == SqrtIter(0, Scale, x)

RECURSIVE SumSqDev(_, _)
SumSqDev(s, m) ==
    IF s = <<>> THEN 0
    ELSE (Head(s) - m) * (Head(s) - m) + SumSqDev(Tail(s), m)

\* np.std (population standard deviation) of a non-empty list of thousandths.
Std(s) == Isqrt(SumSqDev(s, Mean(s)) \div Len(s))

\* tanh(k/4) in thousandths for k = 0..16.
TanhTable ==
    << 0, 245, 462, 635, 762, 848, 905, 941, 964,
       978, 987, 992, 995, 997, 998, 999, 999 >>

\* np.tanh on thousandths: the table above, linearly interpolated, odd.
TanhPos(x) ==
    IF x >= 4000 THEN 999
    ELSE LET k == x \div 250
             r == x % 250
         IN TanhTable[k + 1] + ((TanhTable[k + 2] - TanhTable[k + 1]) * r) \div 250

Tanh(x) == IF x < 0 THEN -TanhPos(-x) ELSE TanhPos(x)

\* ------------------------------------------------------------------
\* ThreatLevel and the combiner
\* ------------------------------------------------------------------

ThreatLevel == {"safe", "low", "medium", "high", "critical"}

\* order.index(t) in _higher_threat
OrderIndex(t) ==
    CASE t = "safe" -> 0
      [] t = "low" -> 1
      [] t = "medium" -> 2
      [] t = "high" -> 3
      [] t = "critical" -> 4

\* The comparison as a plausible slip would write it: the level held is kept.
HigherThreatKeepsFirst(a, b) == a

_higher_threat(a, b) == IF OrderIndex(a) >= OrderIndex(b) THEN a ELSE b

\* ------------------------------------------------------------------
\* SteganographyDetector.adaptive_lsb_threshold
\* ------------------------------------------------------------------

Formats == {"BMP", "PNG", "WEBP", "JPEG", "GIF"}

\* tolerance_factor in DevScale units, comp in thousandths.
ToleranceFactor(comp, fmt) ==
    LET base == 500000 + comp * 1500
    IN IF fmt = "BMP" THEN (base * 7) \div 10
       ELSE IF fmt \in {"PNG", "WEBP"} THEN base
       ELSE IF fmt = "JPEG" THEN (base * 13) \div 10
       ELSE base

adaptive_lsb_threshold(comp, fmt) ==
    LET tol == ToleranceFactor(comp, fmt)
        deviation_minor == 2000000 + (tol * 5) \div 10
        deviation_moderate == deviation_minor + 500000 + (tol * 3) \div 10
        deviation_strong == deviation_moderate + 700000 + (tol * 2) \div 10
    IN [minor |-> deviation_minor,
        moderate |-> deviation_moderate,
        strong |-> deviation_strong]

\* ------------------------------------------------------------------
\* SteganographyDetector: the analyzers.  Each takes the quantities the
\* code measures on the file and returns [detected, confidence].
\* ------------------------------------------------------------------

\* "return False, 0.0": a missing dependency, or the analyzer's except branch.
NoOutcome == [detected |-> FALSE, confidence |-> 0]

\* rs_analysis: diff = |R-S|/groups and avg_change, both in thousandths.
rs_analysis(diff, avg_change) ==
    LET confidence == Tanh(diff * 3 + avg_change \div 50)
    IN [detected |-> (confidence > 300 /\ diff > 20), confidence |-> confidence]

\* detect_lsb_steganography, lines 521-589: the decision from the sample.
\* m.dev is |ratio - 0.5| in DevScale units; m.autocorr, m.runs_z in
\* thousandths; m.block_var in units of 0.0001.
LsbDecision(m) ==
    LET rs == rs_analysis(m.rs_diff, m.rs_avg)
        adaptive == adaptive_lsb_threshold(m.comp, m.fmt)
        rs_conf1 == rs.confidence
                    + (IF Abs(m.autocorr) > 150
                       THEN (50 * Min(Abs(m.autocorr), 500)) \div Scale ELSE 0)
        rs_conf == rs_conf1 + (IF Abs(m.runs_z) > 2200 THEN 70 ELSE 0)
        bmp_adjust == IF m.fmt = "BMP" THEN 500000 ELSE 0
        minor_thr == adaptive.minor - bmp_adjust
        moderate_thr == adaptive.moderate - bmp_adjust
        strong_thr == adaptive.strong - bmp_adjust
        conf0 ==
            IF m.dev >= strong_thr
            THEN (Tanh(((m.dev - strong_thr) * 6) \div 10000) * 600) \div Scale
            ELSE IF m.dev >= moderate_thr
            THEN (Tanh(((m.dev - moderate_thr) * 5) \div 10000) * 450) \div Scale
            ELSE IF m.dev >= minor_thr
            THEN (Tanh(((m.dev - minor_thr) * 4) \div 10000) * 250) \div Scale
            ELSE 0
        det0 ==
            IF m.dev >= strong_thr THEN TRUE
            ELSE IF m.dev >= moderate_thr THEN rs.detected /\ rs_conf > 250
            ELSE IF m.dev >= minor_thr THEN rs.detected /\ rs_conf > 350
            ELSE FALSE
        conf1 == IF rs.detected THEN conf0 + (rs_conf * 400) \div Scale ELSE conf0
        det1 == det0 \/ (rs.detected /\ rs_conf > 550
                         /\ m.dev * 10 > minor_thr * 9)
        conf2 == IF m.sample_size < 4000 THEN (conf1 * 600) \div Scale ELSE conf1
        det2 == IF m.sample_size < 4000 /\ conf2 < 300 THEN FALSE ELSE det1
        pattern_window_low ==
            moderate_thr + ((strong_thr - moderate_thr) * 15) \div 100
        pattern_window_high ==
            strong_thr + ((strong_thr - moderate_thr) * 40) \div 100
        in_window == pattern_window_low <= m.dev /\ m.dev <= pattern_window_high
        conf3 == IF in_window THEN (conf2 * 1150) \div Scale ELSE conf2
        det3 == IF in_window /\ rs_conf > 300 THEN TRUE ELSE det2
    IN [detected |-> det3, confidence |-> Clip(conf3, 0, Scale)]

\* detect_lsb_steganography.  m.pil: PIL is present and opens the file.
\* Line 534 reads minor_thr before line 545 assigns it: when the first
\* conjunct (block_var < 0.0005) is true the read raises UnboundLocalError,
\* which the except branch turns into (False, 0.0).
LsbRaises(m) == m.pil /\ m.sample_size >= 800 /\ m.block_var < 5

detect_lsb_steganography(m) ==
    IF ~m.pil THEN NoOutcome
    ELSE IF m.sample_size < 800 THEN NoOutcome
    ELSE IF LsbRaises(m) THEN NoOutcome
    ELSE LsbDecision(m)

\* chi_square_test, lines 641-647.
ChiConfidence(low_p_count, avg_p, min_p) ==
    IF low_p_count >= 2 THEN Min(Scale, ((Scale - avg_p) * 15) \div 10)
    ELSE Scale - min_p

\* chi_square_test.  m.ok: PIL and scipy present, the file opens and has
\* pixel pairs; m.p: the three per-channel p-values in thousandths.
chi_square_test(m) ==
    IF ~m.ok THEN NoOutcome
    ELSE LET min_p == Min(m.p[1], Min(m.p[2], m.p[3]))
             avg_p == Mean(m.p)
             low_p_count == Cardinality({i \in 1..3 : m.p[i] < 50})
         IN [detected |-> (min_p < 10 \/ (low_p_count >= 2 /\ avg_p < 100)),
             confidence |-> Min(ChiConfidence(low_p_count, avg_p, min_p), Scale)]

\* frequency_domain_analysis.  m.energy_ratio in thousandths; m.nan: the
\* spectrum is all zero, so central/total is NaN and every comparison fails.
frequency_domain_analysis(m) ==
    IF ~m.ok THEN NoOutcome
    ELSE IF m.nan THEN NoOutcome
    ELSE [detected |-> m.energy_ratio < 300,
          confidence |-> IF m.energy_ratio < 500 THEN Scale - m.energy_ratio
                         ELSE 0]

\* self.entropy_threshold, self.stego_entropy_threshold (thousandths of a bit)
entropy_threshold == 7500

stego_entropy_threshold == 7800

\* entropy_analysis: entropy of the file's bytes in thousandths of a bit.
entropy_analysis(has_pil, entropy, file_size) ==
    IF ~has_pil THEN NoOutcome
    ELSE LET base_threshold ==
                 IF file_size < 50000 THEN entropy_threshold + 200
                 ELSE IF file_size > 500000 THEN entropy_threshold
                 ELSE entropy_threshold + 100
             stego_threshold ==
                 IF file_size < 50000 THEN stego_entropy_threshold + 150
                 ELSE IF file_size > 500000 THEN stego_entropy_threshold
                 ELSE stego_entropy_threshold + 50
         IN IF entropy > stego_threshold
            THEN [detected |-> TRUE,
                  confidence |-> Min(((entropy - stego_threshold) * Scale) \div 300,
                                     Scale)]
            ELSE IF entropy > base_threshold
            THEN [detected |-> entropy > base_threshold + 300,
                  confidence |-> ((entropy - base_threshold) * Scale) \div 500]
            ELSE NoOutcome

\* crypto_entropy_analysis: 'suspicious'.  compress_ratio and chi_square_p
\* in thousandths; an empty file returns the default result.
crypto_suspicious(file_size, entropy, compress_ratio, chi_square_p) ==
    /\ file_size > 0
    /\ \/ (entropy > 7800 /\ compress_ratio > 900)
       \/ chi_square_p < 1

\* ------------------------------------------------------------------
\* EnhancedFileSecurityValidator._analyze_image_steganography
\* ------------------------------------------------------------------

\* Appends x to s when cond holds.
AppendIf(s, cond, x) == IF cond THEN Append(s, x) ELSE s

\* base_weights, in thousandths, in the order of `confidences`:
\* lsb, entropy, chi, freq.
base_weights == << 350, 250, 200, 200 >>

\* lines 1210-1326: the function's local confidence_scores before fusion.
\* a.extraction: "absent" (no stegano, or nothing / a short text revealed),
\* "failed" (lsb.reveal raised), "found" (a text longer than 10 revealed).
\* a.crypto: "suspicious", "minor" (the 0.25 signal) or "none".
AnalysisScores(a) ==
    LET s1 == AppendIf(<<>>, a.lsb.detected, a.lsb.confidence)
        s2 == AppendIf(s1, a.chi.detected, a.chi.confidence)
        s3 == AppendIf(s2, a.freq.detected, a.freq.confidence)
        s4 == AppendIf(s3, a.ent.detected, a.ent.confidence)
        s5 == AppendIf(s4, a.extraction = "found", 1000)
        s6 == AppendIf(s5, a.steghide, 900)
        s7 == AppendIf(s6, a.sharp, 400)
        s8 == AppendIf(s7, a.crypto = "suspicious", 600)
    IN AppendIf(s8, a.crypto = "minor", 250)

\* lines 1210-1326: results['warnings'] before fusion.
AnalysisWarnings(a) ==
    LET w1 == AppendIf(<<>>, a.lsb.detected, "lsb")
        w2 == AppendIf(w1, a.chi.detected, "chi_square")
        w3 == AppendIf(w2, a.freq.detected, "frequency")
        w4 == AppendIf(w3, a.ent.detected, "entropy")
        w5 == AppendIf(w4, a.extraction = "found", "message_extracted")
        w6 == AppendIf(w5, a.steghide, "steghide")
        w7 == AppendIf(w6, a.sharp, "sharp")
    IN AppendIf(w7, a.crypto = "suspicious", "crypto_pattern")

\* The sub-sequence of the positive entries of s.
RECURSIVE NonZero(_)
NonZero(s) ==
    IF s = <<>> THEN <<>>
    ELSE IF Head(s) > 0 THEN <<Head(s)>> \o NonZero(Tail(s))
    ELSE NonZero(Tail(s))

\* lines 1365-1366: std_c, with "else 1.0" for a vanishing deviation.
StdOrOne(non_zero) ==
    IF SumSqDev(non_zero, Mean(non_zero)) > 0 THEN Max(1, Std(non_zero))
    ELSE Scale

\* lines 1368-1375: the unnormalised dynamic weight of one method.
DynamicWeight(k, c, mean_c, std_c) ==
    IF c <= 0 THEN 0
    ELSE LET z == ((c - mean_c) * Scale) \div std_c
             factor == Scale + Tanh(z \div 2) \div 2
         IN base_weights[k] * factor

\* lines 1329-1462: the scoring of a non-empty confidence_scores, for the
\* method confidences conf = <<lsb, entropy, chi, freq>> of which at least
\* one is positive, when no message was extracted.
FusionDecision(scores, conf, comp_score) ==
    LET non_zero == NonZero(conf)
        mean_c == Mean(non_zero)
        std_c == StdOrOne(non_zero)
        w == [k \in 1..4 |-> DynamicWeight(k, conf[k], mean_c, std_c)]
        total_w == w[1] + w[2] + w[3] + w[4]
        composite_score ==
            (conf[1] * w[1] + conf[2] * w[2] + conf[3] * w[3] + conf[4] * w[4])
                \div total_w
        flags0 == Cardinality({k \in 1..4 : conf[k] * 10 > mean_c * 8})
        strong_flags == Cardinality({k \in 1..4 : conf[k] > mean_c + std_c})
        mean_conf_all == Mean(scores)
        std_conf_all == IF Len(scores) > 1 THEN Std(scores) ELSE 0
        entropy_high_pattern ==
            conf[2] > 550 /\ conf[1] < 100 /\ comp_score < 650
        method_flags == IF entropy_high_pattern THEN flags0 + 1 ELSE flags0
        combined ==
            \/ (method_flags >= 2 /\ strong_flags >= 1)
            \/ composite_score * 2 > mean_conf_all * 2 + std_conf_all
            \/ entropy_high_pattern
        correlated ==
            /\ conf[1] > 180
            /\ conf[2] * 10 > mean_conf_all * 9
            /\ composite_score * 10 > mean_conf_all * 11
    IN [has_steganography |-> combined \/ correlated,
        warnings |-> AppendIf(AppendIf(AppendIf(<<>>,
                        entropy_high_pattern, "entropy_high_pattern"),
                        combined, "combined_detection"),
                        ~combined /\ correlated, "lsb_entropy_correlated")]

\* _analyze_image_steganography.  The function has no except branch of its
\* own, so a NameError inside it escapes to validate_file:
\*  - line 1400 reads mean_c, assigned only when some method confidence is
\*    positive (line 1365);
\*  - line 1451 reads dynamic_gate, assigned only in the branch taken when no
\*    message was extracted (line 1424).
_analyze_image_steganography(a) ==
    LET scores == AnalysisScores(a)
        conf == << a.lsb.confidence, a.ent.confidence,
                   a.chi.confidence, a.freq.confidence >>
        details == [lsb |-> a.lsb, chi |-> a.chi, freq |-> a.freq, ent |-> a.ent]
    IN IF scores = <<>>
       THEN [raised |-> FALSE, has_steganography |-> FALSE, confidence |-> 0,
             warnings |-> AnalysisWarnings(a), details |-> details]
       ELSE IF NonZero(conf) = <<>> \/ a.extraction = "found"
       THEN [raised |-> TRUE, has_steganography |-> a.extraction = "found",
             confidence |-> Mean(scores),
             warnings |-> AnalysisWarnings(a), details |-> details]
       ELSE LET f == FusionDecision(scores, conf, a.comp_score)
            IN [raised |-> FALSE,
                has_steganography |-> f.has_steganography,
                confidence |-> Mean(scores),
                warnings |-> AnalysisWarnings(a) \o f.warnings,
                details |-> details]

\* ------------------------------------------------------------------
\* SteganographyDetector.detect_visual_attacks
\* ------------------------------------------------------------------

\* v.pil: PIL present and the file opens; v.width, v.height: img.size;
\* v.alpha_std: stddev of the alpha channel (0 without one); v.cv2: "absent"
\* (no cv2), "unreadable" (cv2.imread returns None, so cvtColor raises and
\* the except branch returns (False, [])), or "read"; v.laplacian_var.
detect_visual_attacks(v) ==
    IF ~v.pil \/ v.cv2 = "unreadable" THEN <<>>
    ELSE LET i1 == AppendIf(<<>>, v.width * v.height > 25000000,
                            "Imagen excesivamente grande")
             i2 == AppendIf(i1, Max(v.width, v.height) > 20 * Min(v.width, v.height),
                            "Proporciones inusuales de imagen")
             i3 == AppendIf(i2, v.alpha_std > 100,
                            "Canal alfa con patrones sospechosos")
         IN AppendIf(i3, v.cv2 = "read" /\ v.laplacian_var > 5000,
                     "Niveles de ruido anormales detectados")

\* ------------------------------------------------------------------
\* EnhancedFileSecurityValidator: BMP structure, file structure, MIME
\* ------------------------------------------------------------------

\* valid_dib_sizes
valid_dib_sizes == {12, 40, 52, 56, 108, 124}

\* the bit depths accepted by both BMP checks
valid_bpp == {1, 4, 8, 16, 24, 32}

\* abs(real_size - file_size) > max(limit, file_size * pct / 100)
SizeMismatch(real_size, file_size, limit, pct) ==
    100 * Abs(real_size - file_size) > Max(100 * limit, file_size * pct)

\* row_size * abs(height), lines 1170-1171
ExpectedPixels(h) == (((h.bpp * h.width + 31) \div 32) * 4) * Abs(h.height)

\* The findings as a plausible slip would compute them: the lower bound of
\* the pixel offset left out.
BmpFindingsNoLowerOffset(h, real_size) ==
    LET i1 == AppendIf(<<>>, h.planes # 1, "BMP: planes != 1")
        i2 == AppendIf(i1, h.dib_header_size \notin valid_dib_sizes,
                       "BMP: tamano DIB inusual")
        i3 == AppendIf(i2, h.bpp \notin valid_bpp,
                       "BMP: profundidad de bits no soportada")
        i4 == AppendIf(i3, h.width <= 0 \/ Abs(h.height) <= 0,
                       "BMP: dimensiones invalidas")
        i5 == AppendIf(i4, SizeMismatch(real_size, h.file_size, 1024, 3),
                       "BMP: tamano declarado vs real inconsistente")
        i6 == AppendIf(i5, h.pixel_offset > h.file_size,
                       "BMP: offset de pixeles fuera de rango")
        i7 == AppendIf(i6, h.file_size < h.pixel_offset + ExpectedPixels(h),
                       "BMP: tamano insuficiente para datos")
        i8 == AppendIf(i7, h.jfif, "BMP: contiene firma JPEG (posible disfraz)")
        i9 == AppendIf(i8, h.png, "BMP: contiene firma PNG inesperada")
    IN AppendIf(i9, h.nulls_header > 180, "BMP: relleno excesivo en cabecera")

\* _analyze_bmp_structure, lines 1153-1185: the findings in the order the
\* code appends them.  h: the header fields; real_size: os.path.getsize.
BmpFindings(h, real_size) ==
    LET i1 == AppendIf(<<>>, h.planes # 1, "BMP: planes != 1")
        i2 == AppendIf(i1, h.dib_header_size \notin valid_dib_sizes,
                       "BMP: tamano DIB inusual")
        i3 == AppendIf(i2, h.bpp \notin valid_bpp,
                       "BMP: profundidad de bits no soportada")
        i4 == AppendIf(i3, h.width <= 0 \/ Abs(h.height) <= 0,
                       "BMP: dimensiones invalidas")
        i5 == AppendIf(i4, SizeMismatch(real_size, h.file_size, 1024, 3),
                       "BMP: tamano declarado vs real inconsistente")
        i6 == AppendIf(i5, h.pixel_offset < 54 \/ h.pixel_offset > h.file_size,
                       "BMP: offset de pixeles fuera de rango")
        i7 == AppendIf(i6, h.file_size < h.pixel_offset + ExpectedPixels(h),
                       "BMP: tamano insuficiente para datos")
        i8 == AppendIf(i7, h.jfif, "BMP: contiene firma JPEG (posible disfraz)")
        i9 == AppendIf(i8, h.png, "BMP: contiene firma PNG inesperada")
    IN AppendIf(i9, h.nulls_header > 180, "BMP: relleno excesivo en cabecera")

\* The findings that make _analyze_bmp_structure return ok = False
\* (lines 1187-1193).
BmpFatal ==
    { "BMP: tamano declarado vs real inconsistente",
      "BMP: contiene firma JPEG (posible disfraz)",
      "BMP: contiene firma PNG inesperada",
      "BMP: offset de pixeles fuera de rango",
      "BMP: encabezado incompleto",
      "BMP: firma BM ausente" }

\* The findings of an ok structure that validate_file still records as
\* issues (the terms of lines 951-954); the others become warnings.
BmpEscalated ==
    { "BMP: contiene firma JPEG (posible disfraz)",
      "BMP: contiene firma PNG inesperada",
      "BMP: tamano declarado vs real inconsistente",
      "BMP: offset de pixeles fuera de rango",
      "BMP: relleno excesivo en cabecera" }

Range(s) == { s[i] : i \in 1..Len(s) }

SelectIn(s, S) == SelectSeq(s, LAMBDA x : x \in S)

SelectNotIn(s, S) == SelectSeq(s, LAMBDA x : x \notin S)

\* _analyze_bmp_structure: [ok, issues].
_analyze_bmp_structure(h, real_size) ==
    IF h.kind = "short"
    THEN [ok |-> FALSE, issues |-> << "BMP: encabezado incompleto" >>]
    ELSE IF h.kind = "nomagic"
    THEN [ok |-> FALSE, issues |-> << "BMP: firma BM ausente" >>]
    ELSE LET found == BmpFindings(h, real_size)
         IN [ok |-> Range(found) \cap BmpFatal = {}, issues |-> found]

\* _verify_file_structure, lines 1516-1550: the BMP header re-check.
BmpHeaderAccepted(h, real_size) ==
    /\ h.kind = "full"
    /\ h.planes = 1
    /\ h.bpp \in valid_bpp
    /\ ~(h.width <= 0 \/ Abs(h.height) <= 0)
    /\ ~SizeMismatch(real_size, h.file_size, 512, 2)
    /\ ~(h.pixel_offset < 54 \/ h.pixel_offset > h.file_size)

IsImageMime(m) == m \in {"image/png", "image/bmp", "image/jpeg"}

\* _verify_file_structure.  decodable: Image.open and img.verify succeed.
_verify_file_structure(has_pil, mime, h, real_size, decodable) ==
    IF IsImageMime(mime) /\ has_pil
    THEN /\ (mime = "image/bmp" => BmpHeaderAccepted(h, real_size))
         /\ decodable
    ELSE real_size > 0

\* mimetypes.guess_type on the claimed name's extension.
GuessType(ext) ==
    CASE ext = "png" -> "image/png"
      [] ext = "bmp" -> "image/bmp"
      [] ext = "pdf" -> "application/pdf"
      [] ext = "html" -> "text/html"
      [] ext = "mp3" -> "audio/mpeg"
      [] OTHER -> "application/octet-stream"

\* _get_mime_type.  magic: what magic.from_file returns, or "error" when it
\* raises (the bare except falls through to the extension guess).
_get_mime_type(has_magic, magic, ext) ==
    IF has_magic /\ magic # "error" THEN magic ELSE GuessType(ext)

\* self.allowed_mime_types
allowed_mime_types ==
    [image |-> {"image/jpeg", "image/png", "image/gif", "image/webp"},
     audio |-> {"audio/mpeg", "audio/wav", "audio/ogg", "audio/mp4"},
     video |-> {"video/mp4", "video/avi", "video/mkv", "video/webm"},
     document |-> {"application/pdf", "text/plain"}]

_get_file_category(mime) ==
    IF mime \in allowed_mime_types.image THEN "image"
    ELSE IF mime \in allowed_mime_types.audio THEN "audio"
    ELSE IF mime \in allowed_mime_types.video THEN "video"
    ELSE IF mime \in allowed_mime_types.document THEN "document"
    ELSE IF IsImageMime(mime) THEN "image"
    ELSE "unknown"

\* ------------------------------------------------------------------
\* The state: one EnhancedFileSecurityValidator and its validate_file call
\* ------------------------------------------------------------------

VARIABLES
    caps,               \* the module flags HAS_MAGIC, HAS_PIL, HAS_CV2, ...
    pc,                 \* where validate_file stands
    file,               \* the file at file_path and its claimed name
    threat_level,       \* validate_file's locals
    issues,
    warnings,
    recommendations,
    confidence_scores,
    needs_sanitization, \* metadata['needs_sanitization']
    mime_type,
    file_type,
    bmp,                \* the BMP header at file_path, once it has been read
    obs,                \* what the steps of this call returned
    report,             \* the SecurityReport returned to the caller
    deviations,         \* measurements so far that differ from a clean file's
    prev,               \* an earlier call on the same file: its draws, its report
    thr,                \* one call of adaptive_lsb_threshold: input, result
    lsb,                \* one call of detect_lsb_steganography: input, result
    db,                 \* models.py: the collections of the MongoDB database
    env,                \* the process environment: FLASK_ENV, the bcrypt build
    ret,                \* the last call of rooms.py, models.py, auth.py
    calc,               \* one call of a helper of file_security.py: input, result
    up,                 \* main.py: one request to upload_file and its temp files
    sock                \* main.py: active_sessions, the Socket.IO rooms, handlers

\* The variables of the calls checked on their own and of the chat's store.
aside == << thr, lsb, db, env, ret, calc, up, sock >>

vars == << caps, pc, file, threat_level, issues, warnings, recommendations,
           confidence_scores, needs_sanitization, mime_type, file_type, bmp,
           obs, report, deviations, prev, aside >>

\* self.max_file_size
max_file_size == 50 * 1024 * 1024

\* The environments the module is imported in: every optional dependency
\* present, python-magic missing, and none of them present.
CapsSet ==
    { [magic |-> TRUE, pil |-> TRUE, cv2 |-> TRUE, scipy |-> TRUE, stegano |-> TRUE],
      [magic |-> FALSE, pil |-> TRUE, cv2 |-> TRUE, scipy |-> TRUE, stegano |-> TRUE],
      [magic |-> FALSE, pil |-> FALSE, cv2 |-> FALSE, scipy |-> FALSE,
       stegano |-> FALSE] }

\* Claimed file names.
FileNames == { "photo.png", "scan.bmp", "doc.pdf", "page.html", "a..b.png" }

\* original_filename.lower().split('.')[-1]
NameExt(n) ==
    CASE n = "photo.png" -> "png"
      [] n = "scan.bmp" -> "bmp"
      [] n = "doc.pdf" -> "pdf"
      [] n = "page.html" -> "html"
      [] n = "a..b.png" -> "png"

\* the suspicious_patterns found in the name, in list order
NamePatterns(n) == IF n = "a..b.png" THEN << ".." >> ELSE <<>>

\* original_filename.count('.')
NameDots(n) == IF n = "a..b.png" THEN 3 ELSE 1

\* the extensions whose content is scanned for malicious signatures
TextExts == {"html", "htm", "php", "js", "jsp", "asp", "txt", "xml"}

\* File sizes in bytes: empty, small, large, exactly the maximum, one byte
\* more.
FileSizes == {0, 1000, 970000, max_file_size, max_file_size + 1}

\* Shannon entropy of the file's bytes, thousandths of a bit.
Entropies == {0, 5000, 7700, 7990}

\* What magic.from_file reports ("error": it raises).
MagicTypes ==
    { "image/png", "image/bmp", "application/pdf", "text/html",
      "inode/x-empty", "error" }

\* The files a caller can hand to validate_file.  decodable: the bytes parse
\* as the type they are detected as (for an image: Image.open and img.verify
\* accept them wherever PIL is installed).  An empty file has no entropy and
\* parses as nothing.
FileOK(f) ==
    /\ (f.size = 0) = (f.entropy = 0)
    /\ f.size = 0 => ~f.decodable /\ f.magic \in {"inode/x-empty", "error"}
    /\ f.size > 0 => f.magic # "inode/x-empty"

Files ==
    { f \in [size : FileSizes, name : FileNames, magic : MagicTypes,
             decodable : BOOLEAN, entropy : Entropies] : FileOK(f) }

NoBmp == [kind |-> "none"]

NoObs ==
    [outcome |-> "none", size_failed |-> FALSE, sig_found |-> FALSE,
     sig_at |-> -1, img_size |-> << 0, 0 >>,
     analysed |-> FALSE, lsb_raised |-> FALSE, has_steganography |-> FALSE,
     stego_confidence |-> 0, positive_indicators |-> 0,
     lsb |-> NoOutcome, chi |-> NoOutcome, freq |-> NoOutcome,
     ent |-> NoOutcome, file_entropy |-> NoOutcome,
     bmp_findings |-> <<>>]

NoReport ==
    [is_safe |-> FALSE, threat_level |-> "safe", confidence |-> 0,
     issues |-> <<>>, warnings |-> <<>>, recommendations |-> <<>>,
     needs_sanitization |-> FALSE]

\* The most measurements of one file that differ from those of a clean file.
MaxDeviations == 2

Cost(b) == IF b THEN 1 ELSE 0

\* The fields of a measurement that differ from the clean one.
Differ(m, clean) == Cardinality({ k \in DOMAIN clean : m[k] # clean[k] })

\* The clean file: a PNG photo of 970 kB on a host with every library.
CleanFile ==
    [size |-> 970000, name |-> "photo.png", magic |-> "image/png",
     decodable |-> TRUE, entropy |-> 5000]

\* Two more files a validator is handed in a row: a small bitmap and a PDF
\* document.
CleanBmpFile ==
    [size |-> 1000, name |-> "scan.bmp", magic |-> "image/bmp",
     decodable |-> TRUE, entropy |-> 5000]

CleanPdfFile ==
    [size |-> 970000, name |-> "doc.pdf", magic |-> "application/pdf",
     decodable |-> TRUE, entropy |-> 5000]

\* What of a file and its host differs from one clean file.  What follows
\* from another difference (an empty file parses as nothing) is not counted
\* again.
FileCostTo(c, f, clean) ==
    Cost(~c.magic \/ ~c.pil) + Cost(f.name # clean.name)
      + (IF f.size = 0 THEN 1
         ELSE Cost(f.size # clean.size) + Cost(f.entropy # clean.entropy)
                + Cost(c.magic /\ f.magic # clean.magic)
                + Cost(~f.decodable))

\* What of a file and its host differs from the clean file.
FileCost(c, f) == FileCostTo(c, f, CleanFile)

NoThr ==
    [comp |-> 0, fmt |-> "PNG", called |-> FALSE,
     out |-> [minor |-> 0, moderate |-> 0, strong |-> 0]]

\* No call of detect_lsb_steganography on its own.
NoLsb == [m |-> [pil |-> FALSE], called |-> FALSE, out |-> NoOutcome]

\* A Python str as bcrypt sees it: head, its first 72 bytes; tail, the rest.
\* None is no str.
PyStr(head, tail) == [kind |-> "str", head |-> head, tail |-> tail]

PyNone == [kind |-> "none", head |-> "", tail |-> ""]

\* The database before anything is stored; no call yet.
NoDb == [rooms |-> <<>>, user_sessions |-> 0, indexed |-> FALSE]

NoEnv == [FLASK_ENV |-> "production", bcrypt_truncates |-> TRUE]

NoRet ==
    [op |-> "none", room_id |-> <<>>, name |-> "", type |-> "",
     username |-> PyNone, pin |-> PyNone, out |-> FALSE, raised |-> FALSE,
     since_init |-> -1]

\* A first call on the file is being recorded; its draws are being replayed
\* in a second call.
Recording == prev.on /\ prev.calls = 0

Replaying == prev.on /\ prev.calls = 1

\* What a step measures on the file is kept for the second call.
Drawn(k, x) ==
    prev' = IF Recording
            THEN [prev EXCEPT !.draws[k] = x, !.seen = @ \cup {k}]
            ELSE prev

\* The second call measures on the same bytes what the first one measured.
Same(k, x) == Replaying /\ k \in prev.seen => x = prev.draws[k]

\* What a step of the second call can measure: of the measurements S, the
\* one the first call made.
Again(k, S) ==
    IF Replaying /\ k \in prev.seen
    THEN { x \in {prev.draws[k]} : x \in S }
    ELSE S

NoCalc == [op |-> "none"]

\* No response yet.  data: whose bytes fileInfo.data holds.
NoResponse ==
    [status |-> 0, success |-> FALSE, sanitized |-> FALSE,
     says_sanitized |-> FALSE, data |-> "none"]

\* No request to upload_file yet.  temp: the file at temp_path exists; copy:
\* the file at sanitized_path exists.
NoUp == [pc |-> "none", temp |-> FALSE, copy |-> FALSE, response |-> NoResponse]

\* The connections of the Socket.IO server (request.sid).
Sids == {"s1", "s2"}

\* No room id.
NoRoom == <<>>

\* handle_join of a connection is not running.
NoJoin == [pc |-> "none", room_id |-> NoRoom]

\* No delete_room request is running; status: its last response.
NoDelete == [pc |-> "none", room_id |-> NoRoom, status |-> 0]

\* Nothing emitted yet.  to: the room or connection addressed; receivers:
\* the connections the event reaches.
NoEmit == [event |-> "none", to |-> NoRoom, receivers |-> {}]

\* main.py before any connection.  active_sessions: the room_id of each
\* sid's entry, NoRoom for no entry; rooms: the Socket.IO rooms join_room put
\* the sid in.
NoSock ==
    [active_sessions |-> [s \in Sids |-> NoRoom],
     rooms |-> [s \in Sids |-> {}],
     connected |-> [s \in Sids |-> FALSE],
     join |-> [s \in Sids |-> NoJoin],
     delete |-> NoDelete,
     last |-> NoEmit]

\* main.py's handlers and the helper calls checked on their own: none runs.
RestIdle ==
    /\ calc = NoCalc
    /\ up = NoUp
    /\ sock = NoSock

\* validate_file touches none of them.
AsideIdle ==
    /\ thr = NoThr
    /\ lsb = NoLsb
    /\ db = NoDb
    /\ env = NoEnv
    /\ ret = NoRet
    /\ RestIdle

\* The except branch as a plausible slip would write it: the issue left out.
ErrorReportNoIssue ==
    [is_safe |-> FALSE, threat_level |-> "high", confidence |-> 0,
     issues |-> <<>>, warnings |-> <<>>,
     recommendations |-> << "Rechazar archivo - error de validacion" >>,
     needs_sanitization |-> FALSE]

\* lines 1051-1060: the report of the except branch of validate_file.
ErrorReport ==
    [is_safe |-> FALSE, threat_level |-> "high", confidence |-> 0,
     issues |-> << "Error durante validacion" >>, warnings |-> <<>>,
     recommendations |-> << "Rechazar archivo - error de validacion" >>,
     needs_sanitization |-> FALSE]

\* An exception escapes a step of the try block: validate_file returns the
\* report of its except branch.  The locals keep what they held.
Raise ==
    /\ report' = ErrorReport
    /\ pc' = "done"
    /\ obs' = [obs EXCEPT !.outcome = "caught"]
    /\ UNCHANGED << caps, file, threat_level, issues, warnings, recommendations,
                    confidence_scores, needs_sanitization, mime_type,
                    file_type, bmp, aside >>

\* The locals as a plausible slip would keep them: attributes of the
\* validator, which hold what the call before left in them.
LocalsKept ==
    [threat_level |-> threat_level, issues |-> issues, warnings |-> warnings,
     recommendations |-> recommendations,
     confidence_scores |-> confidence_scores,
     needs_sanitization |-> needs_sanitization]

\* lines 834-839: the locals validate_file starts from.
LocalsAtEntry ==
    [threat_level |-> "safe", issues |-> <<>>, warnings |-> <<>>,
     recommendations |-> <<>>, confidence_scores |-> <<>>,
     needs_sanitization |-> FALSE]

\* validate_file is called: lines 829-839.
ValidateFile ==
    /\ pc = "idle"
    /\ pc' = "basic"
    /\ obs' = [NoObs EXCEPT !.outcome = "running"]
    /\ threat_level' = LocalsAtEntry.threat_level
    /\ issues' = LocalsAtEntry.issues
    /\ warnings' = LocalsAtEntry.warnings
    /\ recommendations' = LocalsAtEntry.recommendations
    /\ confidence_scores' = LocalsAtEntry.confidence_scores
    /\ needs_sanitization' = LocalsAtEntry.needs_sanitization
    /\ UNCHANGED << caps, file, mime_type, file_type, bmp, report, deviations,
                    prev, aside >>

\* _basic_validations as a plausible slip would write its size test: >= for >.
BasicValidationsSizeGe(f, mal) ==
    LET i1 == AppendIf(<<>>, f.size >= max_file_size,
                       "Archivo excede tamano maximo")
        i2 == i1 \o [k \in 1..Len(NamePatterns(f.name)) |->
                        "Nombre de archivo contiene patron sospechoso"]
        i3 == AppendIf(i2, NameDots(f.name) > 2,
                       "Archivo con multiples extensiones")
    IN AppendIf(i3, NameExt(f.name) \in TextExts /\ mal,
                "Firma maliciosa detectada")

\* _basic_validations: the issues it returns.  mal: a malicious signature
\* occurs in the first megabyte.
_basic_validations(f, mal) ==
    LET i1 == AppendIf(<<>>, f.size > max_file_size,
                       "Archivo excede tamano maximo")
        i2 == i1 \o [k \in 1..Len(NamePatterns(f.name)) |->
                        "Nombre de archivo contiene patron sospechoso"]
        i3 == AppendIf(i2, NameDots(f.name) > 2,
                       "Archivo con multiples extensiones")
    IN AppendIf(i3, NameExt(f.name) \in TextExts /\ mal,
                "Firma maliciosa detectada")

\* Step 1, lines 842-847.  os.path.getsize raises when the file is not there.
BasicStep ==
    /\ pc = "basic"
    /\ \E exists \in BOOLEAN,
          mal \in (IF NameExt(file.name) \in TextExts /\ file.size > 0
                   THEN BOOLEAN ELSE {FALSE}) :
         /\ Same("basic", << exists, mal >>)
         /\ Drawn("basic", << exists, mal >>)
         /\ deviations' = deviations + Cost(~exists) + Cost(mal)
         /\ deviations' <= MaxDeviations
         /\ IF ~exists THEN ~mal /\ Raise
            ELSE LET found == _basic_validations(file, mal)
                 IN /\ issues' = issues \o found
                    /\ threat_level' = IF found # <<>> THEN "high" ELSE threat_level
                    /\ obs' = [obs EXCEPT !.size_failed = file.size > max_file_size]
                    /\ pc' = "signatures"
                    /\ UNCHANGED << caps, file, warnings, recommendations,
                                    confidence_scores, needs_sanitization,
                                    mime_type, file_type, bmp, report, aside >>

\* min(1024 * 1024, ...), line 1091: the bytes the malicious-signature scan
\* reads.
FirstMegabyte == 1024 * 1024

\* Where the first stego-tool marker of a file starts: -1 when it holds none,
\* else the offset of its 8 bytes (b'steghide'), at the head of the file or
\* right behind the first megabyte.
MarkerOffsets(f) == {-1} \cup { o \in {0, FirstMegabyte} : o + 8 <= f.size }

\* _scan_stego_signatures, lines 1102-1113: f.read() takes the whole content
\* and each signature is searched in it.  at: the first marker's offset.
_scan_stego_signatures(at) == at >= 0

\* Step 2, lines 849-853.
SignatureStep ==
    /\ pc = "signatures"
    /\ \E at \in MarkerOffsets(file) :
         LET found == _scan_stego_signatures(at)
         IN /\ Same("at", at)
            /\ Drawn("at", at)
            /\ deviations' = deviations + Cost(at >= 0)
            /\ deviations' <= MaxDeviations
            /\ issues' = AppendIf(issues, found,
                   "Detectada firma de herramienta de esteganografia")
            /\ threat_level' = IF found THEN "critical" ELSE threat_level
            /\ obs' = [obs EXCEPT !.sig_found = found, !.sig_at = at]
    /\ pc' = "mime"
    /\ UNCHANGED << caps, file, warnings, recommendations, confidence_scores,
                    needs_sanitization, mime_type, file_type, bmp, report, aside >>

\* lines 855-857
MimeStep ==
    /\ pc = "mime"
    /\ mime_type' = _get_mime_type(caps.magic, file.magic, NameExt(file.name))
    /\ file_type' = _get_file_category(mime_type')
    /\ pc' = "image"
    /\ UNCHANGED << caps, file, threat_level, issues, warnings, recommendations,
                    confidence_scores, needs_sanitization, bmp, obs, report,
                    deviations, prev, aside >>

\* ------------------------------------------------------------------
\* Step 3: the image analysis, lines 859-930
\* ------------------------------------------------------------------

\* img.format of a file PIL opens.
ImageFormat(f) ==
    IF f.magic = "image/bmp" THEN "BMP"
    ELSE IF f.magic = "image/png" THEN "PNG"
    ELSE IF NameExt(f.name) = "bmp" THEN "BMP"
    ELSE "PNG"

\* What _analyze_image_steganography measures on a clean image: the
\* complexity score, the results of extraction, steghide and the sharp-change
\* test, and the compression ratio and p-value of crypto_entropy_analysis.
CleanImage ==
    [comp |-> 300, found |-> FALSE, steghide |-> FALSE, sharp |-> FALSE,
     compress_ratio |-> 500, chi_square_p |-> 500]

ImageSamples ==
    [comp : {300, 800}, found : BOOLEAN, steghide : BOOLEAN, sharp : BOOLEAN,
     compress_ratio : {500, 960}, chi_square_p : {500, 0}]

\* What the LSB analyzer measures: the LSB sample, the RS counts and the
\* sequence metrics.
CleanLsb ==
    [sample_size |-> 60000, dev |-> 0, rs_diff |-> 0, rs_avg |-> 0,
     autocorr |-> 0, block_var |-> 80, runs_z |-> 0]

LsbSamples ==
    [sample_size : {60000, 500},
     dev : {0, 3600000, 5000000},
     rs_diff : {0, 400},
     rs_avg : {0, 10000},
     autocorr : {0},
     block_var : {80, 0},
     runs_z : {0, 3000}]

\* The per-channel p-values of the pair test.
CleanChi == [p1 |-> 500, p2 |-> 500, p3 |-> 500]

ChiSamples == [p1 : {500, 20, 0}, p2 : {500, 0}, p3 : {500, 0}]

\* central_energy / total_energy, or a transform that yields NaN.
CleanFreq == [nan |-> FALSE, energy_ratio |-> 800]

FreqSamples ==
    { [nan |-> FALSE, energy_ratio |-> 800], [nan |-> FALSE, energy_ratio |-> 400],
      [nan |-> FALSE, energy_ratio |-> 100], [nan |-> TRUE, energy_ratio |-> 0] }

Within(S, clean) == { m \in S : Differ(m, clean) <= MaxDeviations }

\* The measurements of one image, within the bound.
ImageDraws ==
    { d \in [i : Within(ImageSamples, CleanImage), m : Within(LsbSamples, CleanLsb),
             c : Within(ChiSamples, CleanChi), e : Within(FreqSamples, CleanFreq)] :
        Differ(d.i, CleanImage) + Differ(d.m, CleanLsb) + Differ(d.c, CleanChi)
            + Differ(d.e, CleanFreq) <= MaxDeviations }

CleanDraw == [i |-> CleanImage, m |-> CleanLsb, c |-> CleanChi, e |-> CleanFreq]

\* What of a draw the file's bytes determine: all but the answers of the
\* external tools, the steghide binary (check_steghide, 20 s timeout) and the
\* Node script (run_sharp_analysis, 25 s timeout), both looked up in PATH at
\* each call.
ContentOf(d) == [d EXCEPT !.i.steghide = FALSE, !.i.sharp = FALSE]

ToolsOf(d) == << d.i.steghide, d.i.sharp >>

\* Without PIL (or a file it opens) nothing is measured; without scipy the
\* pair test and the transform are not.
ImageDrawsOf(pil, scipy) ==
    IF ~pil THEN { CleanDraw }
    ELSE IF scipy THEN ImageDraws
    ELSE { d \in ImageDraws : d.c = CleanChi /\ d.e = CleanFreq }

DrawCost(d) ==
    Differ(d.i, CleanImage) + Differ(d.m, CleanLsb) + Differ(d.c, CleanChi)
        + Differ(d.e, CleanFreq)

LsbOutcomeOf(pil, fmt, comp, m) ==
    detect_lsb_steganography(
        [pil |-> pil, fmt |-> fmt, comp |-> comp, sample_size |-> m.sample_size,
         dev |-> m.dev, rs_diff |-> m.rs_diff, rs_avg |-> m.rs_avg,
         autocorr |-> m.autocorr, block_var |-> m.block_var,
         runs_z |-> m.runs_z])

\* crypto_entropy_analysis of a file, folded to the signal line 1314-1324
\* derives from it.
CryptoSignal(f, compress_ratio, chi_square_p) ==
    IF crypto_suspicious(f.size, f.entropy, compress_ratio, chi_square_p)
    THEN "suspicious"
    ELSE IF f.size > 0 /\ compress_ratio > 950 /\ f.entropy > 7400 THEN "minor"
    ELSE "none"

\* lines 863-930 of validate_file: what the image branch does with the
\* result r of _analyze_image_steganography.
positive_indicators(r) ==
    Cardinality({ k \in {"lsb", "chi", "freq"} : r.details[k].detected })

ImageIssues(r) ==
    IF r.has_steganography /\ r.confidence > 800
    THEN AppendIf(<<>>, positive_indicators(r) >= 2,
                  "Esteganografia detectada con alta confianza")
    ELSE IF r.has_steganography
    THEN AppendIf(<< "Steganografia detectada" >>,
                  r.details.lsb.detected \/ r.details.ent.detected
                      \/ r.details.chi.detected,
                  "Metodos que detectaron steganografia")
    ELSE <<>>

ImageWarnings(r) ==
    AppendIf(<<>>,
             r.has_steganography /\ r.confidence > 800
                 /\ positive_indicators(r) < 2,
             "Posible esteganografia detectada") \o r.warnings

ImageRecommendations(r) ==
    IF r.has_steganography /\ r.confidence > 800
    THEN AppendIf(<<>>, positive_indicators(r) >= 2,
                  "Rechazar archivo - contenido oculto detectado con multiples metodos")
    ELSE IF r.has_steganography
    THEN << "Rechazar archivo - contenido oculto detectado" >>
    ELSE <<>>

\* lines 879, 888-889, 892: the level after the image branch.
ImageThreat(t, r) ==
    IF r.has_steganography /\ r.confidence > 800
    THEN IF positive_indicators(r) >= 2 THEN "critical"
         ELSE IF t = "safe" THEN "low" ELSE t
    ELSE IF r.has_steganography THEN "high"
    ELSE t

\* The draws of one call: on the second call those whose content is the
\* first call's, the tools answering as they then do.
ImageDrawsAt(pil, scipy) ==
    IF Replaying /\ "image" \in prev.seen
    THEN { d \in { [prev.draws.image EXCEPT !.i.steghide = t[1], !.i.sharp = t[2]] :
                       t \in BOOLEAN \X BOOLEAN } :
             d \in ImageDrawsOf(pil, scipy) }
    ELSE ImageDrawsOf(pil, scipy)

ImageStep ==
    /\ pc = "image"
    /\ file_type = "image"
    /\ LET pil == caps.pil /\ file.decodable
           fmt == ImageFormat(file)
       IN \E d \in ImageDrawsAt(pil, caps.scipy) :
            /\ d.i.found => caps.stegano
            /\ Same("image", ContentOf(d))
            /\ prev' = IF Recording
                       THEN [prev EXCEPT !.draws.image = ContentOf(d),
                                         !.seen = @ \cup {"image"},
                                         !.tools = ToolsOf(d)]
                       ELSE IF Replaying
                       THEN [prev EXCEPT !.tools_again = ToolsOf(d)]
                       ELSE prev
            /\ deviations' = deviations + DrawCost(d)
            /\ deviations' <= MaxDeviations
            /\ LET i == d.i
                   m == d.m
                   c == d.c
                   e == d.e
                   r == _analyze_image_steganography(
                        [lsb |-> LsbOutcomeOf(pil, fmt, i.comp, m),
                         chi |-> chi_square_test(
                                     [ok |-> pil /\ caps.scipy,
                                      p |-> << c.p1, c.p2, c.p3 >>]),
                         freq |-> frequency_domain_analysis(
                                      [ok |-> pil /\ caps.scipy, nan |-> e.nan,
                                       energy_ratio |-> e.energy_ratio]),
                         ent |-> entropy_analysis(caps.pil, file.entropy, file.size),
                         comp_score |-> i.comp,
                         extraction |-> IF i.found THEN "found"
                                        ELSE IF caps.stegano /\ ~pil THEN "failed"
                                        ELSE "absent",
                         steghide |-> i.steghide, sharp |-> i.sharp,
                         crypto |-> CryptoSignal(file, i.compress_ratio,
                                                 i.chi_square_p)])
               IN IF r.raised THEN Raise
                  ELSE /\ issues' = issues \o ImageIssues(r)
                       /\ warnings' = warnings \o ImageWarnings(r)
                       /\ recommendations' =
                              recommendations \o ImageRecommendations(r)
                       /\ threat_level' = ImageThreat(threat_level, r)
                       /\ confidence_scores' =
                              Append(confidence_scores, r.confidence)
                       /\ obs' = [obs EXCEPT
                                     !.analysed = TRUE,
                                     !.lsb_raised =
                                         LsbRaises([pil |-> pil,
                                                    sample_size |-> m.sample_size,
                                                    block_var |-> m.block_var]),
                                     !.has_steganography = r.has_steganography,
                                     !.stego_confidence = r.confidence,
                                     !.positive_indicators = positive_indicators(r),
                                     !.lsb = r.details.lsb, !.chi = r.details.chi,
                                     !.freq = r.details.freq, !.ent = r.details.ent]
                       /\ pc' = "visual"
                       /\ UNCHANGED << caps, file, needs_sanitization, mime_type,
                                       file_type, bmp, report, aside >>

\* line 860: the file is no image, the whole branch is skipped.
SkipImage ==
    /\ pc = "image"
    /\ file_type # "image"
    /\ pc' = "metadata"
    /\ UNCHANGED << caps, file, threat_level, issues, warnings, recommendations,
                    confidence_scores, needs_sanitization, mime_type,
                    file_type, bmp, obs, report, deviations, prev, aside >>

\* ------------------------------------------------------------------
\* Steps 3 (rest) to 6 and the report, lines 932-1049
\* ------------------------------------------------------------------

\* What detect_visual_attacks measures: the dimensions, the deviation of the
\* alpha channel, whether cv2 reads the file and the Laplacian variance.
CleanVisual ==
    [width |-> 200, height |-> 200, alpha_std |-> 0, cv2 |-> "read",
     laplacian_var |-> 100]

VisualSamples ==
    [width : {200, 5000, 30000}, height : {200, 1000, 5000, 5001},
     alpha_std : {0, 120},
     cv2 : {"read", "unreadable"}, laplacian_var : {100, 6000}]

\* lines 932-938
\* clean: the picture the measurements of this call are counted from.
VisualStepFrom(clean) ==
    /\ pc = "visual"
    /\ \E v \in Again("visual", IF caps.pil /\ file.decodable
                                 THEN Within(VisualSamples, clean)
                                 ELSE {clean}) :
         LET visual_issues ==
                 detect_visual_attacks(
                     [pil |-> caps.pil /\ file.decodable, width |-> v.width,
                      height |-> v.height, alpha_std |-> v.alpha_std,
                      cv2 |-> IF caps.cv2 THEN v.cv2 ELSE "absent",
                      laplacian_var |-> v.laplacian_var])
         IN /\ Same("visual", v)
            /\ Drawn("visual", v)
            /\ deviations' = deviations + Differ(v, clean)
            /\ deviations' <= MaxDeviations
            /\ warnings' = warnings \o visual_issues
            /\ threat_level' = IF visual_issues # <<>> /\ threat_level = "safe"
                               THEN "medium" ELSE threat_level
            /\ obs' = [obs EXCEPT !.img_size =
                          IF caps.pil /\ file.decodable
                          THEN << v.width, v.height >> ELSE << 0, 0 >>]
    /\ pc' = "bmp"
    /\ UNCHANGED << caps, file, issues, recommendations, confidence_scores,
                    needs_sanitization, mime_type, file_type, bmp, report,
                    aside >>

VisualStep == VisualStepFrom(CleanVisual)

\* A header none of whose fields breaks an invariant.  delta: declared size
\* minus real size.
SoundHeader ==
    [kind |-> "full", delta |-> 0, pixel_offset |-> 54, dib_header_size |-> 40,
     width |-> 10, height |-> 10, planes |-> 1, bpp |-> 24, jfif |-> FALSE,
     png |-> FALSE, nulls_header |-> 0]

\* The 54-byte headers (and the bytes up to 4096 the code scans) of the
\* files handed in as BMP.
BmpHeaderSet ==
    { h \in [kind : {"full"}, delta : {0, 600, 30000, 30001}, pixel_offset : {54, 0, 70000000},
             dib_header_size : {40, 41}, width : {10, 0, 20000},
             height : {10, -31000}, planes : {1, 2}, bpp : {24, 7},
             jfif : BOOLEAN, png : BOOLEAN, nulls_header : {0, 181}] :
        Differ(h, SoundHeader) <= MaxDeviations }

\* The headers a file can carry: shorter than 54 bytes when the file is, the
\* BM magic missing only where neither PIL nor libmagic saw it.
BmpHeadersOf(f) ==
    IF f.size < 54 THEN { [kind |-> "short"] }
    ELSE IF f.decodable \/ f.magic = "image/bmp" THEN BmpHeaderSet
    ELSE BmpHeaderSet \cup { [kind |-> "nomagic"] }

HeaderCost(h) ==
    IF h.kind = "full" THEN Differ(h, SoundHeader) ELSE Cost(h.kind = "nomagic")

\* The header as the code reads it: file_size is the declared size.
ReadHeader(h, real_size) ==
    IF h.kind # "full" THEN h
    ELSE [kind |-> "full", file_size |-> real_size + h.delta,
          pixel_offset |-> h.pixel_offset,
          dib_header_size |-> h.dib_header_size, width |-> h.width,
          height |-> h.height, planes |-> h.planes, bpp |-> h.bpp,
          jfif |-> h.jfif, png |-> h.png, nulls_header |-> h.nulls_header]

\* lines 945-959: what validate_file records of the BMP findings.
BmpIssues(r) == IF ~r.ok THEN r.issues ELSE SelectIn(r.issues, BmpEscalated)

BmpWarnings(r) == IF ~r.ok THEN <<>> ELSE SelectNotIn(r.issues, BmpEscalated)

\* lines 940-959
BmpStep ==
    /\ pc = "bmp"
    /\ IF mime_type = "image/bmp"
       THEN \E h \in Again("header", BmpHeadersOf(file)) :
              LET r == _analyze_bmp_structure(ReadHeader(h, file.size), file.size)
              IN /\ Same("header", h)
                 /\ Drawn("header", h)
                 /\ deviations' = deviations + HeaderCost(h)
                 /\ deviations' <= MaxDeviations
                 /\ bmp' = ReadHeader(h, file.size)
                 /\ issues' = issues \o BmpIssues(r)
                 /\ warnings' = warnings \o BmpWarnings(r)
                 /\ threat_level' = IF BmpIssues(r) # <<>>
                                    THEN _higher_threat(threat_level, "high")
                                    ELSE threat_level
                 /\ obs' = [obs EXCEPT !.bmp_findings = r.issues]
       ELSE UNCHANGED << bmp, issues, warnings, threat_level, obs, deviations,
                         prev >>
    /\ pc' = "bmp_ext"
    /\ UNCHANGED << caps, file, recommendations, confidence_scores,
                    needs_sanitization, mime_type, file_type, report, aside >>

\* lines 961-976
BmpExtensionStep ==
    /\ pc = "bmp_ext"
    /\ LET mismatch == NameExt(file.name) = "bmp" /\ mime_type # "image/bmp"
       IN /\ issues' = AppendIf(issues, mismatch,
                                "Extension .bmp no coincide con contenido real")
          /\ threat_level' = IF mismatch THEN _higher_threat(threat_level, "high")
                             ELSE threat_level
    /\ pc' = "metadata"
    /\ UNCHANGED << caps, file, warnings, recommendations, confidence_scores,
                    needs_sanitization, mime_type, file_type, bmp, obs, report,
                    deviations, prev, aside >>

\* _analyze_metadata returns n findings.  Step 4, lines 978-984.
MetadataStep ==
    /\ pc = "metadata"
    /\ \E n \in (IF caps.pil /\ file_type = "image" /\ file.decodable
                 THEN {0, 1, 4} ELSE {0}) :
         /\ Same("meta", n)
         /\ Drawn("meta", n)
         /\ deviations' = deviations + Cost(n > 0)
         /\ deviations' <= MaxDeviations
         /\ warnings' = warnings \o [k \in 1..n |-> "Metadato sospechoso"]
         /\ threat_level' = IF n > 3 THEN _higher_threat(threat_level, "medium")
                            ELSE threat_level
    /\ pc' = "structure"
    /\ UNCHANGED << caps, file, issues, recommendations, confidence_scores,
                    needs_sanitization, mime_type, file_type, bmp, obs, report,
                    aside >>

\* Step 5, lines 986-990
StructureStep ==
    /\ pc = "structure"
    /\ LET sound == _verify_file_structure(caps.pil, mime_type, bmp, file.size,
                                           file.decodable)
       IN /\ issues' = AppendIf(issues, ~sound,
                                "Estructura de archivo corrupta o alterada")
          /\ threat_level' = IF ~sound THEN _higher_threat(threat_level, "high")
                             ELSE threat_level
    /\ pc' = "entropy"
    /\ UNCHANGED << caps, file, warnings, recommendations, confidence_scores,
                    needs_sanitization, mime_type, file_type, bmp, obs, report,
                    deviations, prev, aside >>

\* Step 6, lines 992-1006
EntropyStep ==
    /\ pc = "entropy"
    /\ LET e == IF file.size > 100000
                THEN entropy_analysis(caps.pil, file.entropy, file.size)
                ELSE NoOutcome
           high == e.detected /\ e.confidence > 500
       IN /\ warnings' = AppendIf(warnings, high, "Entropia anormalmente alta")
          /\ confidence_scores' =
                 AppendIf(confidence_scores, high, (e.confidence * 500) \div Scale)
          /\ threat_level' = IF high /\ e.confidence > 800 /\ threat_level = "safe"
                             THEN "low" ELSE threat_level
          /\ obs' = [obs EXCEPT !.file_entropy = e]
    /\ pc' = "report"
    /\ UNCHANGED << caps, file, issues, recommendations, needs_sanitization,
                    mime_type, file_type, bmp, report, deviations, prev, aside >>

\* lines 1008-1010 as a plausible slip would write them: np.sum for np.mean.
SumConfidence(scores) == SumSeq(scores)

\* lines 1008-1010
AvgConfidence(scores) == IF scores # <<>> THEN Mean(scores) ELSE 0

\* lines 1012-1015 as a plausible slip would write them: the level ignored.
IsSafeIssuesOnly(found, level) == Len(found) = 0

\* lines 1012-1015
IsSafe(found, level) == Len(found) = 0 /\ level \in {"safe", "low"}

\* lines 1017-1033
\* The recommendation as a plausible slip would choose it: the CRITICAL
\* branch left out.
FinalRecommendationNoCritical(is_safe, level, warned) ==
    IF is_safe
    THEN IF warned THEN "Archivo aprobado con advertencias - monitorear"
         ELSE "Archivo seguro para uso"
    ELSE IF level = "high" \/ level = "critical"
    THEN "Rechazar archivo - multiples problemas de seguridad"
    ELSE "Requerir revision manual antes de aprobar"

\* lines 1017-1033
FinalRecommendation(is_safe, level, warned) ==
    IF is_safe
    THEN IF warned THEN "Archivo aprobado con advertencias - monitorear"
         ELSE "Archivo seguro para uso"
    ELSE IF level = "critical"
    THEN "RECHAZAR INMEDIATAMENTE - Alto riesgo de seguridad"
    ELSE IF level = "high"
    THEN "Rechazar archivo - multiples problemas de seguridad"
    ELSE "Requerir revision manual antes de aprobar"

\* lines 1008-1049: the report of the normal path.
ReportStep ==
    /\ pc = "report"
    /\ LET avg_confidence == AvgConfidence(confidence_scores)
           is_safe == IsSafe(issues, threat_level)
           sanitize == is_safe /\ file_type = "image"
                       /\ (warnings # <<>> \/ avg_confidence > 200)
           recs == AppendIf(
                       Append(recommendations,
                              FinalRecommendation(is_safe, threat_level,
                                                  warnings # <<>>)),
                       sanitize,
                       "Considerar re-encoding de la imagen para eliminar datos ocultos")
       IN /\ recommendations' = recs
          /\ needs_sanitization' = sanitize
          /\ report' = [is_safe |-> is_safe, threat_level |-> threat_level,
                        confidence |-> avg_confidence, issues |-> issues,
                        warnings |-> warnings, recommendations |-> recs,
                        needs_sanitization |-> sanitize]
    /\ obs' = [obs EXCEPT !.outcome = "returned"]
    /\ pc' = "done"
    /\ UNCHANGED << caps, file, threat_level, issues, warnings,
                    confidence_scores, mime_type, file_type, bmp, deviations,
                    prev, aside >>

\* No earlier call.
NoPrev ==
    [on |-> FALSE, calls |-> 0, base |-> 0, report |-> NoReport,
     seen |-> {},
     draws |-> [basic |-> << TRUE, FALSE >>, at |-> -1, image |-> CleanDraw,
                visual |-> CleanVisual, header |-> SoundHeader, meta |-> 0],
     tools |-> << FALSE, FALSE >>, tools_again |-> << FALSE, FALSE >>]

\* Without python-magic nothing is reported.
Init ==
    /\ caps \in CapsSet
    /\ pc = "idle"
    /\ file \in Files
    /\ ~caps.magic => file.magic = "error"
    /\ threat_level = "safe"
    /\ issues = <<>>
    /\ warnings = <<>>
    /\ recommendations = <<>>
    /\ confidence_scores = <<>>
    /\ needs_sanitization = FALSE
    /\ mime_type = "application/octet-stream"
    /\ file_type = "unknown"
    /\ bmp = NoBmp
    /\ obs = NoObs
    /\ report = NoReport
    /\ deviations = FileCost(caps, file)
    /\ deviations <= MaxDeviations
    /\ prev = NoPrev
    /\ AsideIdle

Next ==
    \/ ValidateFile
    \/ BasicStep
    \/ SignatureStep
    \/ MimeStep
    \/ ImageStep
    \/ SkipImage
    \/ VisualStep
    \/ BmpStep
    \/ BmpExtensionStep
    \/ MetadataStep
    \/ StructureStep
    \/ EntropyStep
    \/ ReportStep

Spec == Init /\ [][Next]_vars

\* ------------------------------------------------------------------
\* validate_file on hosts with every library, the pictures being large,
\* long and thin, with a busy alpha channel and noisy: the measurements of
\* the visual check are counted from those of such a picture.
\* ------------------------------------------------------------------

LoudVisual ==
    [width |-> 30000, height |-> 1000, alpha_std |-> 120, cv2 |-> "read",
     laplacian_var |-> 6000]

InitLoud ==
    /\ Init
    /\ caps = [magic |-> TRUE, pil |-> TRUE, cv2 |-> TRUE, scipy |-> TRUE,
               stegano |-> TRUE]

VisualStepLoud == VisualStepFrom(LoudVisual)

NextLoud ==
    \/ ValidateFile
    \/ BasicStep
    \/ SignatureStep
    \/ MimeStep
    \/ ImageStep
    \/ SkipImage
    \/ VisualStepLoud
    \/ BmpStep
    \/ BmpExtensionStep
    \/ MetadataStep
    \/ StructureStep
    \/ EntropyStep
    \/ ReportStep

SpecLoud == InitLoud /\ [][NextLoud]_vars

\* ------------------------------------------------------------------
\* validate_file called twice on the same file by the same validator: a
\* clean picture, bitmap or document on a host with every library, each call
\* with one measurement less than MaxDeviations off the clean ones.
\* ------------------------------------------------------------------

InitTwice ==
    /\ caps = [magic |-> TRUE, pil |-> TRUE, cv2 |-> TRUE, scipy |-> TRUE,
               stegano |-> TRUE]
    /\ pc = "idle"
    /\ file \in {CleanFile, CleanBmpFile, CleanPdfFile}
    /\ threat_level = "safe"
    /\ issues = <<>>
    /\ warnings = <<>>
    /\ recommendations = <<>>
    /\ confidence_scores = <<>>
    /\ needs_sanitization = FALSE
    /\ mime_type = "application/octet-stream"
    /\ file_type = "unknown"
    /\ bmp = NoBmp
    /\ obs = NoObs
    /\ report = NoReport
    /\ deviations = 1
    /\ prev = [NoPrev EXCEPT !.on = TRUE, !.base = 1]
    /\ AsideIdle

\* The first call has returned its report; the caller keeps it and calls
\* validate_file again with the same path and name.  The frame of the first
\* call is gone; the validator object is the same.
CallAgain ==
    /\ pc = "done"
    /\ Recording
    /\ prev' = [prev EXCEPT !.calls = 1, !.report = report]
    /\ pc' = "idle"
    /\ report' = NoReport
    /\ obs' = NoObs
    /\ mime_type' = "application/octet-stream"
    /\ file_type' = "unknown"
    /\ bmp' = NoBmp
    /\ deviations' = prev.base
    /\ UNCHANGED << caps, file, threat_level, issues, warnings, recommendations,
                    confidence_scores, needs_sanitization, aside >>

NextTwice == Next \/ CallAgain

SpecTwice == InitTwice /\ [][NextTwice]_vars

\* ------------------------------------------------------------------
\* adaptive_lsb_threshold on its own: every complexity score in [0, 1], in
\* thousandths, and every format.
\* ------------------------------------------------------------------

InitThr ==
    /\ thr \in [comp : 0..Scale, fmt : Formats, called : {FALSE},
                 out : {NoThr.out}]
    /\ caps = [magic |-> TRUE, pil |-> TRUE, cv2 |-> TRUE, scipy |-> TRUE,
               stegano |-> TRUE]
    /\ pc = "idle"
    /\ file = CleanFile
    /\ threat_level = "safe"
    /\ issues = <<>>
    /\ warnings = <<>>
    /\ recommendations = <<>>
    /\ confidence_scores = <<>>
    /\ needs_sanitization = FALSE
    /\ mime_type = "application/octet-stream"
    /\ file_type = "unknown"
    /\ bmp = NoBmp
    /\ obs = NoObs
    /\ report = NoReport
    /\ deviations = 0
    /\ prev = NoPrev
    /\ lsb = NoLsb
    /\ db = NoDb
    /\ env = NoEnv
    /\ ret = NoRet
    /\ RestIdle

AdaptiveThreshold ==
    /\ ~thr.called
    /\ thr' = [thr EXCEPT !.called = TRUE,
                          !.out = adaptive_lsb_threshold(thr.comp, thr.fmt)]
    /\ UNCHANGED << caps, pc, file, threat_level, issues, warnings,
                    recommendations, confidence_scores, needs_sanitization,
                    mime_type, file_type, bmp, obs, report, deviations,
                    prev, lsb, db, env, ret, calc, up, sock >>

NextThr == AdaptiveThreshold

SpecThr == InitThr /\ [][NextThr]_vars

\* ------------------------------------------------------------------
\* detect_lsb_steganography on its own: an image PIL opens, in three
\* formats, with samples around the 4000 limit, deviations up to 0.5 and
\* sequence metrics on both sides of each test.
\* ------------------------------------------------------------------

\* The locals of validate_file.
pipeline ==
    << caps, pc, file, threat_level, issues, warnings, recommendations,
       confidence_scores, needs_sanitization, mime_type, file_type, bmp, obs,
       report, deviations, prev >>

\* No call of validate_file.
PipelineIdle ==
    /\ caps = [magic |-> TRUE, pil |-> TRUE, cv2 |-> TRUE, scipy |-> TRUE,
               stegano |-> TRUE]
    /\ pc = "idle"
    /\ file = CleanFile
    /\ threat_level = "safe"
    /\ issues = <<>>
    /\ warnings = <<>>
    /\ recommendations = <<>>
    /\ confidence_scores = <<>>
    /\ needs_sanitization = FALSE
    /\ mime_type = "application/octet-stream"
    /\ file_type = "unknown"
    /\ bmp = NoBmp
    /\ obs = NoObs
    /\ report = NoReport
    /\ deviations = 0
    /\ prev = NoPrev

LsbCalls ==
    [pil : {TRUE}, fmt : {"PNG", "BMP", "JPEG"}, comp : {0, 300, 1000},
     sample_size : {3999, 4000, 60000},
     dev : {0, 3700000, 4500000, 5000000},
     rs_diff : {0, 400}, rs_avg : {0},
     autocorr : {0, 200}, block_var : {0, 4, 5, 80}, runs_z : {0, 3000}]

InitLsb ==
    /\ lsb \in [m : LsbCalls, called : {FALSE}, out : {NoOutcome}]
    /\ PipelineIdle
    /\ thr = NoThr
    /\ db = NoDb
    /\ env = NoEnv
    /\ ret = NoRet
    /\ RestIdle

DetectLsb ==
    /\ ~lsb.called
    /\ lsb' = [lsb EXCEPT !.called = TRUE,
                          !.out = detect_lsb_steganography(lsb.m)]
    /\ UNCHANGED << pipeline, thr, db, env, ret, calc, up, sock >>

NextLsb == DetectLsb

SpecLsb == InitLsb /\ [][NextLsb]_vars

\* ------------------------------------------------------------------
\* Helpers of file_security.py called on their own: the subsampling of
\* detect_lsb_steganography and _analyze_bmp_structure.
\* ------------------------------------------------------------------

\* line 497
max_pixels == 60000

\* ceil(a / b) for b > 0
CeilDiv(a, b) == (a + b - 1) \div b

\* lines 498-500: max(1, int(np.sqrt(total_pixels / max_pixels))); int()
\* drops the fraction.
SampleStride(width, height) == Max(1, Isqrt((width * height) \div max_pixels))

\* lines 499-503: pixels[::step, ::step] keeps every step-th row and column,
\* the first included; an image of at most max_pixels is kept whole.
pixels_sample(width, height) ==
    LET step == IF width * height > max_pixels THEN SampleStride(width, height)
                ELSE 1
    IN [step |-> step, rows |-> CeilDiv(height, step),
        cols |-> CeilDiv(width, step)]

\* Image sizes: a pixel, small, around max_pixels, long and thin, large.
ImageSides == {1, 200, 245, 300, 346, 1000, 5000, 30000}

SampleCalls == [op : {"subsample"}, width : ImageSides, height : ImageSides]

\* The BMP files analysed: a header and the size of the file on disk.
BmpCalls == [op : {"bmp"}, h : BmpHeaderSet, real_size : {1000, 970000}]

\* lines 1264-1274: what is recorded of lsb.reveal.  revealed.raised: the
\* call raised; revealed.len: the length of the text returned (-1: None).
stegano_extraction(has_stegano, revealed) ==
    IF ~has_stegano THEN "absent"
    ELSE IF revealed.raised THEN "failed"
    ELSE IF revealed.len > 10 THEN "found"
    ELSE "absent"

Reveals ==
    { [raised |-> TRUE, len |-> -1] }
        \cup [raised : {FALSE}, len : {-1, 0, 10, 11, 40}]

\* The analyzers' outcomes handed to the fusion of
\* _analyze_image_steganography.
StegoCalls ==
    [op : {"stego"},
     lsb : {NoOutcome, [detected |-> TRUE, confidence |-> 800]},
     chi : {NoOutcome, [detected |-> TRUE, confidence |-> 1000]},
     freq : {NoOutcome, [detected |-> TRUE, confidence |-> 700]},
     ent : {NoOutcome, [detected |-> TRUE, confidence |-> 633]},
     comp_score : {300}, has_stegano : {TRUE}, revealed : Reveals,
     steghide : BOOLEAN, sharp : BOOLEAN, crypto : {"none", "suspicious"}]

InitCalc ==
    /\ calc \in [m : SampleCalls \cup BmpCalls \cup StegoCalls,
                  called : {FALSE}]
    /\ PipelineIdle
    /\ thr = NoThr
    /\ lsb = NoLsb
    /\ db = NoDb
    /\ env = NoEnv
    /\ ret = NoRet
    /\ up = NoUp
    /\ sock = NoSock

Subsample ==
    /\ ~calc.called
    /\ calc.m.op = "subsample"
    /\ calc' = [m |-> calc.m, called |-> TRUE,
                out |-> pixels_sample(calc.m.width, calc.m.height)]
    /\ UNCHANGED << pipeline, thr, lsb, db, env, ret, up, sock >>

AnalyzeBmp ==
    /\ ~calc.called
    /\ calc.m.op = "bmp"
    /\ calc' = [m |-> calc.m, called |-> TRUE,
                out |-> _analyze_bmp_structure(
                            ReadHeader(calc.m.h, calc.m.real_size),
                            calc.m.real_size)]
    /\ UNCHANGED << pipeline, thr, lsb, db, env, ret, up, sock >>

AnalyzeStego ==
    /\ ~calc.called
    /\ calc.m.op = "stego"
    /\ LET m == calc.m
       IN calc' = [m |-> m, called |-> TRUE,
                   out |-> _analyze_image_steganography(
                               [lsb |-> m.lsb, chi |-> m.chi, freq |-> m.freq,
                                ent |-> m.ent, comp_score |-> m.comp_score,
                                extraction |-> stegano_extraction(
                                                   m.has_stegano, m.revealed),
                                steghide |-> m.steghide, sharp |-> m.sharp,
                                crypto |-> m.crypto])]
    /\ UNCHANGED << pipeline, thr, lsb, db, env, ret, up, sock >>

NextCalc == Subsample \/ AnalyzeBmp \/ AnalyzeStego

SpecCalc == InitCalc /\ [][NextCalc]_vars

\* ------------------------------------------------------------------
\* main.py, upload_file: one request.  The names of its temp files hold a
\* fresh shortuuid, so no other request touches them.
\* ------------------------------------------------------------------

\* app.config['MAX_CONTENT_LENGTH'], line 109
MAX_CONTENT_LENGTH == 50 * 1024 * 1024

Response(status, success) ==
    [NoResponse EXCEPT !.status = status, !.success = success]

\* lines 121-134: the checks of the request and file.save(temp_path).
\* request: "nofile" ('file' not in request.files), "noname" (empty
\* filename) or "file".  A body longer than MAX_CONTENT_LENGTH makes
\* request.files raise; the body holds the file and the multipart framing.
\* saved: file.save returned, or raised before creating the file, or raised
\* after creating it (a write failed).
UploadFile ==
    /\ up.pc = "none"
    /\ pc = "idle"
    /\ \E request \in {"nofile", "noname", "file"},
          saved \in {"ok", "raised", "raised_partial"} :
         IF file.size >= MAX_CONTENT_LENGTH
         THEN /\ request = "file" /\ saved = "ok"
              /\ up' = [up EXCEPT !.pc = "returned",
                                  !.response = Response(500, FALSE)]
         ELSE IF request # "file"
         THEN /\ saved = "ok"
              /\ up' = [up EXCEPT !.pc = "returned",
                                  !.response = Response(400, FALSE)]
         ELSE IF saved # "ok"
         THEN up' = [up EXCEPT !.pc = "returned",
                               !.temp = (saved = "raised_partial"),
                               !.response = Response(500, FALSE)]
         ELSE up' = [up EXCEPT !.pc = "validating", !.temp = TRUE]
    /\ UNCHANGED << pipeline, thr, lsb, db, env, ret, calc, sock >>

\* sanitize_image, lines 1588-1619.  saves: img.save succeeds; partial: a
\* failed save leaves what it wrote at output_path (the PIL build decides).
\* The result: what is returned, and whether output_path exists.
sanitize_image(has_pil, decodable, saves, partial) ==
    IF ~has_pil \/ ~decodable THEN [ok |-> FALSE, written |-> FALSE]
    ELSE IF ~saves THEN [ok |-> FALSE, written |-> partial]
    ELSE [ok |-> TRUE, written |-> TRUE]

\* lines 137-282, once validate_file has returned its report.  reads: the
\* open and read of final_path succeed.
UploadDecide ==
    /\ up.pc = "validating"
    /\ pc = "done"
    /\ \E saves \in BOOLEAN, partial \in BOOLEAN, reads \in BOOLEAN :
         IF report.threat_level = "critical"
         THEN /\ saves /\ ~partial /\ reads
              /\ up' = [up EXCEPT !.pc = "returned", !.temp = FALSE,
                                  !.response = Response(403, FALSE)]
         ELSE IF report.threat_level = "high"
         THEN /\ saves /\ ~partial /\ reads
              /\ up' = [up EXCEPT !.pc = "returned", !.temp = FALSE,
                                  !.response = Response(400, FALSE)]
         ELSE IF report.threat_level = "medium"
         THEN /\ saves /\ ~partial /\ reads
              /\ up' = [up EXCEPT !.pc = "returned",
                                  !.response = Response(400, FALSE)]
         ELSE LET wanted == report.needs_sanitization
                  done == IF wanted
                          THEN sanitize_image(caps.pil, file.decodable, saves,
                                              partial)
                          ELSE [ok |-> FALSE, written |-> FALSE]
                  final_path == IF done.ok THEN "sanitized" ELSE "original"
              IN /\ ~wanted => saves /\ ~partial
                 /\ saves => ~partial
                 /\ IF ~reads
                    THEN up' = [up EXCEPT !.pc = "returned", !.temp = FALSE,
                                          !.copy = done.written,
                                          !.response = Response(500, FALSE)]
                    ELSE up' = [up EXCEPT
                                   !.pc = "returned", !.temp = FALSE,
                                   !.copy = done.written /\ ~done.ok,
                                   !.response =
                                       [status |-> 200, success |-> TRUE,
                                        sanitized |-> wanted,
                                        says_sanitized |-> wanted,
                                        data |-> final_path]]
    /\ UNCHANGED << pipeline, thr, lsb, db, env, ret, calc, sock >>

NextUpload ==
    \/ UploadFile
    \/ (up.pc = "validating" /\ Next)
    \/ UploadDecide

SpecUpload == Init /\ [][NextUpload]_vars

\* ------------------------------------------------------------------
\* rooms.py, models.py, auth.py: the rooms collection, PINs and the
\* administrator's login
\* ------------------------------------------------------------------

\* The most documents the rooms collection holds.
MaxRooms == 2

\* shortuuid.uuid(): 22 characters, here c eight times, then d.
Uuid(c, d) == [i \in 1..22 |-> IF i <= 8 THEN c ELSE d]

\* Two of them share their first eight characters.
Uuids == { Uuid("a", "x"), Uuid("a", "y"), Uuid("b", "x") }

\* shortuuid.uuid()[:8]
RoomId(u) == SubSeq(u, 1, 8)

\* A room id no create_room has returned.
FakeId == << "f", "a", "k", "e", "_", "i", "d" >>

\* The names and types rooms are created with.
RoomKinds == { << "sala", "text" >>, << "fotos", "multimedia" >> }

\* A PIN of four digits, and two PINs longer than 72 bytes that share their
\* first 72.
Long72 == "72 bytes"

Pins == { PyStr("1234", ""), PyStr(Long72, "x"), PyStr(Long72, "y") }

\* bcrypt hashes the first 72 bytes of a password.  A build from 5.0.0 on
\* raises ValueError for a longer one, an older build drops the rest.
BcryptRaises(p, truncates) == p.tail # "" /\ ~truncates

\* bcrypt.hashpw(password, bcrypt.gensalt())
hashpw(p) == [salt |-> "salt", key |-> p.head]

\* bcrypt.checkpw(password, hashed)
checkpw(p, hashed) == p.head = hashed.key

\* The document create_room inserts, lines 16-23.
RoomDoc(room_id, name, pin, room_type) ==
    [id |-> room_id, name |-> name, pin |-> hashpw(pin), pin_display |-> pin,
     type |-> room_type]

\* rooms.find({"id": room_id}): the documents in insertion order.
FindRooms(room_id) == SelectSeq(db.rooms, LAMBDA d : d.id = room_id)

\* A room left by an earlier run of the server.
OldRoom == RoomDoc(RoomId(Uuid("b", "x")), "sala", PyStr("1234", ""), "text")

\* The server starts on a database that is empty or holds an earlier run's
\* room and session; FLASK_ENV is development or not; either bcrypt build.
InitChat ==
    /\ db \in [rooms : { <<>>, << OldRoom >> }, user_sessions : {1},
                indexed : {FALSE}]
    /\ env \in [FLASK_ENV : {"development", "production"},
                 bcrypt_truncates : BOOLEAN]
    /\ ret = NoRet
    /\ PipelineIdle
    /\ thr = NoThr
    /\ lsb = NoLsb
    /\ RestIdle

\* init_db as a plausible slip would write it: the rooms left in place when
\* the sessions are cleared.
InitDbKeepsRooms ==
    [rooms |-> db.rooms,
     user_sessions |-> IF env.FLASK_ENV = "development" THEN 0
                       ELSE db.user_sessions,
     indexed |-> \A i, j \in 1..Len(db.rooms) :
                    db.rooms[i].id = db.rooms[j].id => i = j]

\* models.init_db, lines 58-85, on a server that answers the ping: the
\* database it leaves.  create_index fails (and is only logged) when two
\* documents share an id; the collections are emptied only in development.
init_db ==
    [rooms |-> IF env.FLASK_ENV = "development" THEN <<>> ELSE db.rooms,
     user_sessions |-> IF env.FLASK_ENV = "development" THEN 0
                       ELSE db.user_sessions,
     indexed |-> db.indexed \/ \A i, j \in 1..Len(db.rooms) :
                    db.rooms[i].id = db.rooms[j].id => i = j]

InitDb ==
    /\ db' = init_db
    /\ ret' = [NoRet EXCEPT !.op = "init_db", !.since_init = 0]
    /\ UNCHANGED << pipeline, thr, lsb, env, calc, up, sock >>

\* rooms.create_room, lines 8-25.  pin.encode raises on None, hashpw on a
\* PIN bcrypt refuses, insert_one on an id the unique index holds already.
CreateRoom ==
    /\ Len(db.rooms) < MaxRooms
    /\ \E kind \in RoomKinds, pin \in Pins \cup {PyNone}, u \in Uuids :
         LET room_id == RoomId(u)
             raises == \/ pin.kind # "str"
                       \/ BcryptRaises(pin, env.bcrypt_truncates)
                       \/ db.indexed /\ FindRooms(room_id) # <<>>
         IN /\ db' = IF raises THEN db
                     ELSE [db EXCEPT !.rooms =
                              Append(@, RoomDoc(room_id, kind[1], pin, kind[2]))]
            /\ ret' = [NoRet EXCEPT !.op = "create_room",
                                    !.room_id = IF raises THEN <<>> ELSE room_id,
                                    !.name = kind[1], !.type = kind[2],
                                    !.pin = pin, !.raised = raises,
                                    !.out = ~raises,
                                    !.since_init =
                                        IF ret.since_init < 0 \/ raises
                                        THEN ret.since_init
                                        ELSE ret.since_init + 1]
    /\ UNCHANGED << pipeline, thr, lsb, env, calc, up, sock >>

\* rooms.verify_pin, lines 28-43: what it returns.  Every exception inside
\* (pin.encode on None, bcrypt refusing the PIN) ends in return False.
verify_pin(room_id, pin) ==
    LET found == FindRooms(room_id)
    IN IF found = <<>> THEN FALSE
       ELSE IF pin.kind # "str" THEN FALSE
       ELSE IF BcryptRaises(pin, env.bcrypt_truncates) THEN FALSE
       ELSE checkpw(pin, found[1].pin)

VerifyPin ==
    /\ \E room_id \in { RoomId(u) : u \in Uuids } \cup {FakeId},
          pin \in Pins \cup {PyNone} :
         ret' = [NoRet EXCEPT !.op = "verify_pin", !.room_id = room_id,
                              !.pin = pin, !.out = verify_pin(room_id, pin),
                              !.since_init = ret.since_init]
    /\ UNCHANGED << pipeline, thr, lsb, db, env, calc, up, sock >>

\* auth.py
ADMIN_USER == PyStr("admin", "")

\* ADMIN_HASH, line 6: the hash of "espe2025".
ADMIN_HASH == [salt |-> "8dgp4N3xGN3xPzVXFrEmxe", key |-> "espe2025"]

Usernames == { ADMIN_USER, PyStr("hacker", ""), PyNone }

Passwords ==
    { PyStr("espe2025", ""), PyStr("wrong", ""), PyStr(Long72, "x"), PyNone }

\* auth.verify_admin, lines 8-12: [out, raised].  password.encode raises
\* AttributeError on None and bcrypt may refuse the password; nothing
\* catches either.
verify_admin(username, password) ==
    IF username # ADMIN_USER THEN [out |-> FALSE, raised |-> FALSE]
    ELSE IF password.kind # "str" THEN [out |-> FALSE, raised |-> TRUE]
    ELSE IF BcryptRaises(password, env.bcrypt_truncates)
    THEN [out |-> FALSE, raised |-> TRUE]
    ELSE [out |-> checkpw(password, ADMIN_HASH), raised |-> FALSE]

VerifyAdmin ==
    /\ \E username \in Usernames, password \in Passwords :
         LET r == verify_admin(username, password)
         IN ret' = [NoRet EXCEPT !.op = "verify_admin", !.username = username,
                                 !.pin = password, !.out = r.out,
                                 !.raised = r.raised,
                                 !.since_init = ret.since_init]
    /\ UNCHANGED << pipeline, thr, lsb, db, env, calc, up, sock >>

NextChat == InitDb \/ CreateRoom \/ VerifyPin \/ VerifyAdmin

SpecChat == InitChat /\ [][NextChat]_vars


\* ------------------------------------------------------------------
\* main.py: the Socket.IO handlers and delete_room
\* ------------------------------------------------------------------

\* The rooms the admin created before the connections arrive.
SockPin == PyStr("1234", "")

SockRoomIds == { RoomId(Uuid("a", "x")), RoomId(Uuid("b", "x")) }

SockRooms ==
    << RoomDoc(RoomId(Uuid("a", "x")), "sala", SockPin, "text"),
       RoomDoc(RoomId(Uuid("b", "x")), "fotos", SockPin, "multimedia") >>

\* get_users_in_room, lines 516-520: the sessions whose room_id is the
\* room's (the list holds their nicknames).
get_users_in_room(sessions, room_id) ==
    { s \in Sids : sessions[s] = room_id }

\* emit(..., to=room_id): the open connections join_room put in the room.
Receivers(rooms, room_id) ==
    { s \in Sids : sock.connected[s] /\ room_id \in rooms[s] }

Emit(event, to, receivers) ==
    [event |-> event, to |-> to, receivers |-> receivers]

\* Two connections are open, no session yet, both rooms stored.
InitSock ==
    /\ db = [rooms |-> SockRooms, user_sessions |-> 0, indexed |-> TRUE]
    /\ env \in [FLASK_ENV : {"production"}, bcrypt_truncates : BOOLEAN]
    /\ ret = NoRet
    /\ sock = [NoSock EXCEPT !.connected = [s \in Sids |-> TRUE]]
    /\ calc = NoCalc
    /\ up = NoUp
    /\ PipelineIdle
    /\ thr = NoThr
    /\ lsb = NoLsb

\* The server runs each handler in a greenlet of its own (async_mode
\* 'gevent', monkey.patch_all): a handler gives way at each database call,
\* and the answer of a call reaches it after the database served it.

\* handle_join, lines 404-413: verify_pin reads the room.
JoinVerifyPin(sid) ==
    /\ sock.connected[sid]
    /\ sock.join[sid].pc = "none"
    /\ \E room_id \in SockRoomIds \cup {FakeId},
          pin \in { SockPin, PyStr(Long72, "x") } :
         sock' = IF verify_pin(room_id, pin)
                 THEN [sock EXCEPT !.join[sid] =
                          [pc |-> "verified", room_id |-> room_id]]
                 ELSE [sock EXCEPT !.last =
                          Emit("error: PIN incorrecto", NoRoom, {sid})]
    /\ UNCHANGED << pipeline, thr, lsb, db, env, ret, calc, up >>

\* handle_join, lines 415-418: get_room reads the room again.
JoinGetRoom(sid) ==
    /\ sock.join[sid].pc = "verified"
    /\ sock' = IF FindRooms(sock.join[sid].room_id) = <<>>
               THEN [sock EXCEPT !.join[sid] = NoJoin,
                                 !.last = Emit("error: Sala no existe",
                                               NoRoom, {sid})]
               ELSE [sock EXCEPT !.join[sid].pc = "found"]
    /\ UNCHANGED << pipeline, thr, lsb, db, env, ret, calc, up >>

\* handle_join, lines 420-439: the session is stored under the sid, the
\* connection enters the room, the user list goes to the room.  Nothing
\* takes the connection out of the room of the entry it replaces.
JoinRegister(sid) ==
    /\ sock.join[sid].pc = "found"
    /\ LET room_id == sock.join[sid].room_id
           rooms == [sock.rooms EXCEPT ![sid] = @ \cup {room_id}]
       IN sock' = [sock EXCEPT !.active_sessions[sid] = room_id,
                               !.rooms = rooms,
                               !.join[sid] = NoJoin,
                               !.last = Emit("user_list", room_id,
                                             Receivers(rooms, room_id))]
    /\ UNCHANGED << pipeline, thr, lsb, db, env, ret, calc, up >>

\* handle_message, lines 442-464: to the room of the sender's session;
\* nothing without a session.
HandleMessage(sid) ==
    /\ sock.connected[sid]
    /\ LET room_id == sock.active_sessions[sid]
       IN sock' = IF room_id = NoRoom
                  THEN [sock EXCEPT !.last = Emit("no session", NoRoom, {})]
                  ELSE [sock EXCEPT !.last =
                           Emit("message", room_id,
                                Receivers(sock.rooms, room_id))]
    /\ UNCHANGED << pipeline, thr, lsb, db, env, ret, calc, up >>

\* handle_disconnect, lines 499-513, for a connection whose handle_join is
\* not running: the session is dropped and its room left.
HandleDisconnect(sid) ==
    /\ sock.connected[sid]
    /\ sock.join[sid].pc = "none"
    /\ LET room_id == sock.active_sessions[sid]
           rooms == [sock.rooms EXCEPT ![sid] = @ \ {room_id}]
       IN sock' = IF room_id = NoRoom
                  THEN [sock EXCEPT !.connected[sid] = FALSE]
                  ELSE [sock EXCEPT
                           !.connected[sid] = FALSE,
                           !.active_sessions[sid] = NoRoom,
                           !.rooms = rooms,
                           !.last = Emit("user_list", room_id,
                                         Receivers(rooms, room_id) \ {sid})]
    /\ UNCHANGED << pipeline, thr, lsb, db, env, ret, calc, up >>

\* delete_room, lines 381-392: 401 without the admin session, 400 for a
\* room with users; otherwise delete_one is sent.
DeleteCheck ==
    /\ sock.delete.pc = "none"
    /\ \E admin \in BOOLEAN, room_id \in SockRoomIds \cup {FakeId} :
         LET count == Cardinality(get_users_in_room(sock.active_sessions,
                                                    room_id))
         IN sock' = IF ~admin
                    THEN [sock EXCEPT !.delete = [NoDelete EXCEPT !.status = 401]]
                    ELSE IF count > 0
                    THEN [sock EXCEPT !.delete = [NoDelete EXCEPT !.status = 400]]
                    ELSE [sock EXCEPT !.delete =
                             [pc |-> "deleting", room_id |-> room_id,
                              status |-> 0]]
    /\ UNCHANGED << pipeline, thr, lsb, db, env, ret, calc, up >>

\* rooms.delete_one({"id": room_id}): the collection without the first
\* document of that id.
delete_one(rooms, room_id) ==
    LET at == { i \in 1..Len(rooms) : rooms[i].id = room_id }
    IN IF at = {} THEN rooms
       ELSE LET first == CHOOSE i \in at : \A j \in at : i <= j
            IN SubSeq(rooms, 1, first - 1) \o SubSeq(rooms, first + 1, Len(rooms))

\* delete_room, lines 392-398: the database serves delete_one; 404 when it
\* deleted nothing.
DeleteOne ==
    /\ sock.delete.pc = "deleting"
    /\ LET room_id == sock.delete.room_id
           rooms == delete_one(db.rooms, room_id)
       IN /\ db' = [db EXCEPT !.rooms = rooms]
          /\ sock' = [sock EXCEPT !.delete =
                         [NoDelete EXCEPT !.status =
                             IF Len(rooms) = Len(db.rooms) THEN 404 ELSE 200]]
    /\ UNCHANGED << pipeline, thr, lsb, env, ret, calc, up >>

NextSock ==
    \/ \E sid \in Sids : JoinVerifyPin(sid)
    \/ \E sid \in Sids : JoinGetRoom(sid)
    \/ \E sid \in Sids : JoinRegister(sid)
    \/ \E sid \in Sids : HandleMessage(sid)
    \/ \E sid \in Sids : HandleDisconnect(sid)
    \/ DeleteCheck
    \/ DeleteOne

SpecSock == InitSock /\ [][NextSock]_vars


\* ------------------------------------------------------------------
\* The properties
\* ------------------------------------------------------------------

Returned == pc = "done" /\ obs.outcome = "returned"

Caught == pc = "done" /\ obs.outcome = "caught"

AtLeastHigh(t) == OrderIndex(t) >= OrderIndex("high")

SignatureIssue == "Detectada firma de herramienta de esteganografia"

SizeIssue == "Archivo excede tamano maximo"

\* C1: every report validate_file returns, from the normal path or from the
\* except branch, has is_safe true exactly when it has no issue and its
\* threat level is SAFE or LOW.
C1_IsSafeIff ==
    pc = "done" =>
        (report.is_safe <=>
            (report.issues = <<>> /\ report.threat_level \in {"safe", "low"}))

\* A report with no issue that is unsafe by its level alone.
C1_Witness ==
    Returned /\ report.issues = <<>> /\ report.threat_level = "medium"
        /\ ~report.is_safe

\* C2 as the claim states it: no step of one validate_file call lowers the
\* threat level.
C2_Monotonic ==
    [][OrderIndex(threat_level') >= OrderIndex(threat_level)]_vars

\* C3 as the claim states it: a file in which the signature scan found a tool
\* marker gets a report that is CRITICAL and holds the signature issue.
C3_SignatureCritical ==
    pc = "done" /\ obs.sig_found =>
        /\ report.threat_level = "critical"
        /\ SignatureIssue \in Range(report.issues)

C5_Listed ==
    { "BMP: tamano DIB inusual", "BMP: planes != 1",
      "BMP: profundidad de bits no soportada",
      "BMP: tamano declarado vs real inconsistente",
      "BMP: offset de pixeles fuera de rango",
      "BMP: tamano insuficiente para datos",
      "BMP: contiene firma JPEG (posible disfraz)",
      "BMP: contiene firma PNG inesperada",
      "BMP: relleno excesivo en cabecera" }

\* C5 as the claim states it: every violated BMP invariant of the list is
\* among the report's issues and the level is at least HIGH.
C5_BmpViolationsRejected ==
    Returned =>
        \A v \in Range(obs.bmp_findings) \cap C5_Listed :
            v \in Range(report.issues) /\ AtLeastHigh(report.threat_level)

\* C6: a call always ends with a report; the report of the except branch is
\* unsafe, HIGH, of confidence 0 and holds exactly one issue; an exception
\* inside the LSB analyzer leaves the call running with (false, 0.0) for it.
C6_NeverRaises ==
    /\ pc = "done" => obs.outcome \in {"returned", "caught"}
    /\ Caught =>
        /\ ~report.is_safe
        /\ report.threat_level = "high"
        /\ report.confidence = 0
        /\ Len(report.issues) = 1
    /\ obs.lsb_raised => obs.lsb = NoOutcome /\ obs.outcome # "caught"

\* An exception escaped a step and the except branch built the report.
C6_Witness == Caught /\ report.issues = << "Error durante validacion" >>

\* The category of the claimed extension.
ExtCategory(n) == _get_file_category(GuessType(NameExt(n)))

Categories == {"image", "audio", "video", "document"}

\* C7 as the claim states it: when the category of the claimed extension and
\* the category of the detected MIME type differ, the report has an issue.
C7_MismatchRecorded ==
    Returned /\ ExtCategory(file.name) \in Categories /\ file_type \in Categories
             /\ ExtCategory(file.name) # file_type
        => report.issues # <<>> /\ ~report.is_safe

\* C8 as the claim states it: 0 < minor < moderate < strong < 0.5.
C8_ThresholdsOrdered ==
    thr.called =>
        /\ 0 < thr.out.minor
        /\ thr.out.minor < thr.out.moderate
        /\ thr.out.moderate < thr.out.strong
        /\ thr.out.strong < DevScale \div 2

\* C9: the confidence of every analyzer outcome and of the report lies in
\* [0, 1].
C9_ConfidenceInUnit ==
    /\ \A o \in {obs.lsb, obs.chi, obs.freq, obs.ent, obs.file_entropy} :
          0 <= o.confidence /\ o.confidence <= Scale
    /\ 0 <= report.confidence /\ report.confidence <= Scale

\* A report whose confidence is the mean of two contributions that add up to
\* more than 1.
C9_Witness ==
    Returned /\ Len(confidence_scores) >= 2 /\ SumSeq(confidence_scores) > Scale
        /\ report.confidence > 0

\* C10: a file of exactly 50 MB passes the size gate, one of 50 MB + 1 byte
\* fails it; after a failed gate the returned report holds the size issue
\* and every report is at least HIGH.
C10_SizeGate ==
    /\ pc = "done" /\ file.size <= 52428800 =>
          SizeIssue \notin Range(report.issues)
    /\ Returned /\ file.size > 52428800 => SizeIssue \in Range(report.issues)
    /\ pc = "done" /\ file.size > 52428800 => AtLeastHigh(report.threat_level)

\* A file of exactly 50 MB that passed every check.
C10_Witness == Returned /\ file.size = 52428800 /\ report.is_safe

\* ------------------------------------------------------------------
\* The BMP size tolerance
\* ------------------------------------------------------------------

StructureIssue == "Estructura de archivo corrupta o alterada"

BmpSizeIssue == "BMP: tamano declarado vs real inconsistente"

\* The header read differs from a sound one in its declared size at most, and
\* PIL decodes the file.
OnlyDeclaredSizeOff ==
    /\ bmp.kind = "full"
    /\ file.decodable
    /\ [bmp EXCEPT !.file_size = 0] = ReadHeader(SoundHeader, 0)

\* |real size - declared size| - (less) is the largest whole number of bytes
\* within max(1024, 3% of the declared size); both sides in hundredths of a
\* byte.
AtTolerance(less) ==
    LET diff == 100 * (Abs(file.size - bmp.file_size) - less)
        tolerance == Max(100 * 1024, 3 * bmp.file_size)
    IN  diff <= tolerance /\ tolerance < diff + 100

\* C11: a BMP whose declared size differs from its real size by exactly
\* max(1024, 3% of the declared size) is accepted: its report carries neither
\* the size issue nor the structure issue; with one byte more of difference
\* the report carries the size issue and is not safe.
C11_ToleranceBoundary ==
    Returned /\ OnlyDeclaredSizeOff =>
        /\ AtTolerance(0) =>
              /\ BmpSizeIssue \notin Range(report.issues)
              /\ StructureIssue \notin Range(report.issues)
        /\ AtTolerance(1) =>
              BmpSizeIssue \in Range(report.issues) /\ ~report.is_safe

\* ------------------------------------------------------------------
\* The signature scan
\* ------------------------------------------------------------------

\* C12: the stego-tool signature scan is bounded by the first megabyte: a
\* marker that occurs only behind the first 1,048,576 bytes leaves the result
\* what it is without the marker, not found.
C12_ScanBounded == obs.sig_at >= FirstMegabyte => ~obs.sig_found

\* ------------------------------------------------------------------
\* The visual checks
\* ------------------------------------------------------------------

LargeImageWarning == "Imagen excesivamente grande"

\* C13: for an image of exactly 5000 x 5000 pixels the report carries the
\* warning of an excessively large image and a level of at least MEDIUM.
C13_LargeAt25MP ==
    Returned /\ obs.img_size = << 5000, 5000 >> =>
        /\ LargeImageWarning \in Range(report.warnings)
        /\ report.threat_level \in {"medium", "high", "critical"}

\* ------------------------------------------------------------------
\* The BMP pixel offset
\* ------------------------------------------------------------------

BmpOffsetIssue == "BMP: offset de pixeles fuera de rango"

\* The header read has its pixel offset outside 54..declared size.
OffsetOutOfRange ==
    /\ bmp.kind = "full"
    /\ bmp.pixel_offset < 54 \/ bmp.pixel_offset > bmp.file_size

\* C14: when the header of a file analysed as BMP has its pixel offset
\* outside 54..declared size, the report carries the pixel-offset issue, is
\* not safe, and its level is HIGH, or CRITICAL where a tool signature or a
\* steganography detection was found.
C14_OffsetRejected ==
    Returned /\ OffsetOutOfRange =>
        /\ BmpOffsetIssue \in Range(report.issues)
        /\ ~report.is_safe
        /\ report.threat_level \in {"high", "critical"}
        /\ ~obs.sig_found /\ ~obs.has_steganography =>
              report.threat_level = "high"

\* A returned report for a BMP whose pixel offset is 0 and whose only issues
\* are the offset (and what follows from it).
C14_Witness ==
    /\ Returned
    /\ OffsetOutOfRange
    /\ bmp.pixel_offset = 0
    /\ ~obs.sig_found /\ ~obs.has_steganography
    /\ report.threat_level = "high"

\* ------------------------------------------------------------------
\* Files that do not parse
\* ------------------------------------------------------------------

\* The report carries the structure issue, is not safe and is at least HIGH.
StructureRejected ==
    /\ StructureIssue \in Range(report.issues)
    /\ ~report.is_safe
    /\ AtLeastHigh(report.threat_level)

\* C15: for an empty file, and for every file that does not parse as the
\* type it is detected as, the report carries the issue of a corrupted or
\* altered structure, is not safe and is at least HIGH.
C15_UnparsableRejected ==
    Returned /\ (file.size = 0 \/ ~file.decodable) => StructureRejected

\* ------------------------------------------------------------------
\* The strong tier of the LSB analyzer
\* ------------------------------------------------------------------

\* strong_thr of lines 545-547: the adaptive strong threshold less the BMP
\* adjustment.
StrongThr(m) ==
    adaptive_lsb_threshold(m.comp, m.fmt).strong
        - (IF m.fmt = "BMP" THEN 500000 ELSE 0)

\* C20: when the sample holds at least 4000 values and the deviation is at
\* least the strong threshold, the LSB analyzer returns detected = true,
\* whatever the sequence metrics are.
C20_StrongDetected ==
    lsb.called /\ lsb.m.sample_size >= 4000 /\ lsb.m.dev >= StrongThr(lsb.m)
        => lsb.out.detected

\* ------------------------------------------------------------------
\* Rooms and the administrator
\* ------------------------------------------------------------------

\* C17: verify_pin(r, q) never raises; it returns True exactly when r names
\* a room and q is the PIN that room was created with, and False for an id
\* no room has.  Read for ids that name one room at most.
C17_PinExact ==
    ret.op = "verify_pin" /\ Len(FindRooms(ret.room_id)) <= 1 =>
        /\ ~ret.raised
        /\ ret.out = (/\ FindRooms(ret.room_id) # <<>>
                      /\ FindRooms(ret.room_id)[1].pin_display = ret.pin)

\* The last call was the first create_room to succeed since init_db ran.
FirstRoomSinceInit ==
    ret.op = "create_room" /\ ~ret.raised /\ ret.since_init = 1

\* The rooms collection holds one document: the room the last call created.
OnlyTheNewRoom ==
    /\ Len(db.rooms) = 1
    /\ Len(ret.room_id) = 8
    /\ db.rooms[1].id = ret.room_id
    /\ db.rooms[1].name = ret.name
    /\ db.rooms[1].type = ret.type

C19_AdminExact ==
    ret.op = "verify_admin" =>
        /\ ~ret.raised
        /\ ret.out = (ret.username = ADMIN_USER
                      /\ ret.pin = PyStr("espe2025", ""))

\* ------------------------------------------------------------------
\* Two calls on the same file
\* ------------------------------------------------------------------

\* Both calls on the file have ended.
BothEnded == prev.calls = 1 /\ pc = "done"

\* C16: two validate_file calls on the same bytes with the same claimed name
\* return identical reports, when the external tools (steghide, the Node
\* script) answered the same in both calls.
C16_SameUnderSameTools ==
    BothEnded /\ prev.tools_again = prev.tools => report = prev.report

\* C16 as stated: identical reports whatever the external tools answered.
C16_Deterministic == BothEnded => report = prev.report

\* Two calls that both heard steghide report embedded data and returned the
\* same report with its warning.
C16_Witness ==
    /\ BothEnded
    /\ prev.tools_again = prev.tools
    /\ prev.tools[1]
    /\ report = prev.report
    /\ report.warnings # <<>>

\* ------------------------------------------------------------------
\* The subsampling of the LSB analyzer
\* ------------------------------------------------------------------

Subsampled == calc.called /\ calc.m.op = "subsample"

\* C21: for every width and height the rows and columns kept by the
\* subsampling step number at most 60,000 in product.
C21_SampleBounded ==
    Subsampled => calc.out.rows * calc.out.cols <= max_pixels

\* ------------------------------------------------------------------
\* The payload extraction
\* ------------------------------------------------------------------

\* lsb.reveal returned a text of at least 10 characters.
Extracted ==
    /\ calc.called
    /\ calc.m.op = "stego"
    /\ ~calc.m.revealed.raised
    /\ calc.m.revealed.len >= 10

\* C22: whenever the LSB payload extraction yields a decoded string of
\* length >= 10, the image analysis does not raise and returns
\* has_steganography, whatever the other analyzers found.
C22_ExtractionDetected ==
    Extracted => ~calc.out.raised /\ calc.out.has_steganography

\* ------------------------------------------------------------------
\* The visual check
\* ------------------------------------------------------------------

VisualAnomalies ==
    { "Imagen excesivamente grande", "Proporciones inusuales de imagen",
      "Canal alfa con patrones sospechosos",
      "Niveles de ruido anormales detectados" }

RecommendationMatches ==
    LET recs == Range(report.recommendations)
    IN /\ report.threat_level = "critical" =>
              "RECHAZAR INMEDIATAMENTE - Alto riesgo de seguridad" \in recs
       /\ report.threat_level = "high" =>
              "Rechazar archivo - multiples problemas de seguridad" \in recs
       /\ report.threat_level = "medium" =>
              "Requerir revision manual antes de aprobar" \in recs
       /\ report.is_safe /\ report.warnings # <<>> =>
              "Archivo aprobado con advertencias - monitorear" \in recs

\* C24, amended: every report validate_file returns from its normal path
\* carries the recommendation matching its threat level: CRITICAL 'reject
\* immediately', HIGH 'reject - multiple issues', MEDIUM 'manual review', a
\* safe report with warnings 'approve with monitoring'.
C24_RecommendationOnNormalPath == Returned => RecommendationMatches

\* C24 as stated: every report returned, that of the except branch included.
C24_RecommendationMatches == pc = "done" => RecommendationMatches

\* A CRITICAL report of the normal path with its recommendation.
C24_Witness ==
    /\ Returned
    /\ report.threat_level = "critical"
    /\ "RECHAZAR INMEDIATAMENTE - Alto riesgo de seguridad"
           \in Range(report.recommendations)

\* ------------------------------------------------------------------
\* The BMP pixel data
\* ------------------------------------------------------------------

\* ceil(bpp * width / 32) * 4
RowStride(h) == CeilDiv(h.bpp * h.width, 32) * 4

\* The file on disk is smaller than the header and the pixel rows need.
RealSizeTooSmall ==
    /\ calc.called
    /\ calc.m.op = "bmp"
    /\ calc.m.h.kind = "full"
    /\ calc.m.real_size
           < calc.m.h.pixel_offset + RowStride(calc.m.h) * Abs(calc.m.h.height)

\* C26: the BMP structural validator raises the 'insufficient size for pixel
\* data' finding whenever the real file size is smaller than pixel_offset +
\* row_stride * |height|, whatever size the header declares.
C26_InsufficientOnRealSize ==
    RealSizeTooSmall =>
        "BMP: tamano insuficiente para datos" \in Range(calc.out.issues)

\* ------------------------------------------------------------------
\* Issues and threat level
\* ------------------------------------------------------------------

\* C27: in every report validate_file returns, issues is non-empty if and
\* only if threat_level is HIGH or CRITICAL.
C27_IssuesIffHigh ==
    pc = "done" => (report.issues # <<>> <=> AtLeastHigh(report.threat_level))

\* A report of the normal path whose only issue was appended by the
\* structure check, which raised the level from below HIGH to HIGH.
C27_Witness ==
    /\ Returned
    /\ report.issues = << StructureIssue >>
    /\ report.threat_level = "high"

\* ------------------------------------------------------------------
\* upload_file
\* ------------------------------------------------------------------

Responded == up.pc = "returned"

\* C25: on every exit path of upload_file the quarantine temp file and any
\* sanitized copy created during the request no longer exist when the
\* handler returns.
C25_TempFilesReleased == Responded => ~up.temp /\ ~up.copy

\* C28: in a successful response fileInfo.sanitized is true, and the message
\* says 'sanitized', only if the data returned is the output of
\* sanitize_image.
C28_SanitizedOnlyIfSanitized ==
    Responded /\ up.response.status = 200 =>
        /\ up.response.sanitized => up.response.data = "sanitized"
        /\ up.response.says_sanitized => up.response.data = "sanitized"

\* A room delete_room removed from the collection.
Deleted(room_id) == room_id \in SockRoomIds /\ FindRooms(room_id) = <<>>

\* C29: under any interleaving of join_room events and delete_room
\* requests, no entry of active_sessions refers to a room that has been
\* deleted.
C29_NoSessionInDeletedRoom ==
    \A sid \in Sids : ~Deleted(sock.active_sessions[sid])

\* C30: the open connections that receive a room's events are exactly the
\* ones whose session records that room, so an open connection is in no
\* Socket.IO room other than the one of its session.
C30_MembersMatchSession ==
    \A room_id \in SockRoomIds :
        Receivers(sock.rooms, room_id)
            = get_users_in_room(sock.active_sessions, room_id)

=========================================================================
